---- MODULE Spec2Model ----
(***************************************************************************)
(* Credential validation orchestration engine (credential_auditor):        *)
(* the TTL/size-bounded ValidationCache, Provider.check_key, and the       *)
(* audit() orchestrator with its semaphore-bounded batch of tasks.         *)
(*                                                                         *)
(* Strings are sequences of one-character strings, so that slicing,        *)
(* concatenation, substring tests and lexicographic comparison are         *)
(* computed the way Python computes them.                                  *)
(***************************************************************************)
EXTENDS Integers, Sequences, FiniteSets, TLC

VARIABLES
    _cache,     \* the ValidationCache object: store, stats, ttl, max_size
    now,        \* the reading of time.monotonic()
    last,       \* the last cache operation called directly: arguments and outcome
    lastput,    \* history: per (provider, secret), the result of the latest put
    environ,    \* os.environ: name -> value
    env_file,   \* dotenv_values(env_path): the lines [var, value] of the file, in order
    transport,  \* what the network may answer to a request
    disk,       \* what the file system may do with a flush of the audit log
    callers,    \* the `providers` arguments audit() is called with
    budget,     \* how many more calls of audit() are made
    logfile,    \* the audit log file: one batch of entries per flush
    pc,         \* "idle", or "gather" while audit() awaits its batch
    active,     \* audit() locals, kept while it awaits
    tasks,
    cached_results,
    uncached_tasks,
    alog,
    _injected_env,
    sem,        \* the semaphore's value
    tstate,     \* per queued task: "pending", "inflight" (inside validate), "done"
    raw,        \* per queued task: what gather collects for it
    sent,       \* the queued tasks that sent a request
    overtake,   \* history: whether the second queued task ended before the first
    out,        \* the last call of audit() that ended: what it returned and did
    called,     \* the last call of check_key made directly: arguments and outcome
    detection,  \* the last call of detect_provider_by_key made directly, and the
                \* order in which the adapters registered
    permissions_file,   \* agent broker: the permissions file beside the .env file
    broker,     \* the broker process: its mode, what it loaded, its last reply
    disclosed   \* history: what the broker's outputs told of the .env file

cacheVars == <<_cache, now, last, lastput>>

brokerVars == <<permissions_file, broker, disclosed>>

\* what the broker leaves alone
auditorVars ==
    <<_cache, now, last, lastput, environ, env_file, transport, disk, callers, called,
      detection, budget, logfile, pc, active, tasks, cached_results, uncached_tasks, alog,
      _injected_env, sem, tstate, raw, sent, overtake, out>>

worldVars == <<env_file, transport, disk, callers, called, detection, brokerVars>>

localVars ==
    <<active, tasks, cached_results, uncached_tasks, alog, _injected_env, sem, tstate, raw, sent,
      overtake>>

auditVars == <<environ, worldVars, budget, logfile, pc, localVars, out>>

vars == <<cacheVars, auditVars>>

-----------------------------------------------------------------------------
(* Strings *)

\* The characters used, in code-point order (Python compares str by code point).
ASCII ==
    <<"-", ".", "0", "1", "2", "3", "4", "5", "6", "7", "8", "9", ":",
      "A", "B", "C", "D", "E", "F", "G", "H", "I", "J", "K", "L", "M",
      "N", "O", "P", "Q", "R", "S", "T", "U", "V", "W", "X", "Y", "Z", "_",
      "a", "b", "c", "d", "e", "f", "g", "h", "i", "j", "k", "l", "m",
      "n", "o", "p", "q", "r", "s", "t", "u", "v", "w", "x", "y", "z">>

Ord(c) == CHOOSE i \in DOMAIN ASCII : ASCII[i] = c

MinOf(S) == CHOOSE x \in S : \A y \in S : x <= y

\* a < b for Python str
StrLess(a, b) ==
    LET n == IF Len(a) < Len(b) THEN Len(a) ELSE Len(b)
        diff == {i \in 1..n : a[i] # b[i]}
    IN  IF diff = {} THEN Len(a) < Len(b)
        ELSE Ord(a[MinOf(diff)]) < Ord(b[MinOf(diff)])

\* c * n
Rep(c, n) == [i \in 1..n |-> c]

\* None
None == [tag |-> "None"]

-----------------------------------------------------------------------------
(* models.py *)

Status ==
    {"valid", "invalid_format", "auth_failed", "suspended_account",
     "quota_exhausted", "insufficient_scope", "network_error"}

\* network_error counted among the failing statuses
FAILING_STATUSES_with_errors ==
    {"auth_failed", "suspended_account", "quota_exhausted", "insufficient_scope",
     "network_error"}

FAILING_STATUSES ==
    {"auth_failed", "suspended_account", "quota_exhausted", "insufficient_scope"}

\* KeyFingerprint.from_key
from_key(key) ==
    [prefix |-> IF Len(key) >= 4 THEN SubSeq(key, 1, 4) ELSE key,
     suffix |-> IF Len(key) >= 4 THEN SubSeq(key, Len(key) - 3, Len(key)) ELSE <<>>,
     length |-> Len(key)]

\* KeyResult(provider=, env_var=, key_fingerprint=, status=, latency_ms=, error_detail=);
\* latency_ms is 0 (the default) or 1 (a time measured around validate)
KeyResult(provider, env_var, fp, status, latency, error) ==
    [provider |-> provider, env_var |-> env_var, key_fingerprint |-> fp,
     status |-> status, rate_limit |-> None, latency_ms |-> latency,
     error_detail |-> error, auto_detected |-> FALSE]

-----------------------------------------------------------------------------
(* cache.py *)

\* the text that _cache_key hashes: f"{provider}:{key}"; the truncated SHA-256
\* of it is taken to be injective
_cache_key(provider, key) == provider \o <<":">> \o key

\* ValidationCache(ttl_seconds, max_size)
ValidationCache(ttl_seconds, max_size) ==
    [store |-> <<>>, hits |-> 0, misses |-> 0, ttl |-> ttl_seconds, max_size |-> max_size]

\* dict operations on _store, a sequence of entries in insertion order
StoreKeys(store) == {store[i].ck : i \in 1..Len(store)}

StoreEntry(store, ck) == store[CHOOSE i \in 1..Len(store) : store[i].ck = ck]

StoreDel(store, ck) == SelectSeq(store, LAMBDA e : e.ck # ck)

StoreSet(store, ck, result, ts) ==
    IF ck \in StoreKeys(store)
    THEN [i \in 1..Len(store) |->
            IF store[i].ck = ck THEN [ck |-> ck, result |-> result, ts |-> ts] ELSE store[i]]
    ELSE Append(store, [ck |-> ck, result |-> result, ts |-> ts])

\* Oldest taken to be the first key in dict order, whatever its timestamp
Oldest_first_inserted(store) == store[1].ck

\* min(self._store, key=lambda k: self._store[k][1]): the first key, in dict order,
\* among those with the least timestamp
Oldest(store) ==
    LET m == MinOf({store[i].ts : i \in 1..Len(store)})
        i == MinOf({j \in 1..Len(store) : store[j].ts = m})
    IN  store[i].ck

\* cache_get with the TTL comparison off by one (<= for <)
cache_get_ttl_inclusive(c, provider, key, t) ==
    LET ck == _cache_key(provider, key)
    IN  IF ck \in StoreKeys(c.store) /\ (t - StoreEntry(c.store, ck).ts) <= c.ttl
        THEN [cache |-> [c EXCEPT !.hits = @ + 1],
              ret |-> StoreEntry(c.store, ck).result]
        ELSE [cache |-> [c EXCEPT !.store = StoreDel(@, ck), !.misses = @ + 1],
              ret |-> None]

\* ValidationCache.get: the cache after the call, and the value returned
cache_get(c, provider, key, t) ==
    LET ck == _cache_key(provider, key)
    IN  IF ck \in StoreKeys(c.store) /\ (t - StoreEntry(c.store, ck).ts) < c.ttl
        THEN [cache |-> [c EXCEPT !.hits = @ + 1],
              ret |-> StoreEntry(c.store, ck).result]
        ELSE [cache |-> [c EXCEPT !.store = StoreDel(@, ck), !.misses = @ + 1],
              ret |-> None]

\* AtCapacity with > for >=
AtCapacity_strict(c) == Len(c.store) > c.max_size

\* the condition of put's eviction branch
AtCapacity(c) == Len(c.store) >= c.max_size

\* ValidationCache.put raises (min() of an empty dict) exactly here
put_raises(c) == AtCapacity(c) /\ Len(c.store) = 0

\* put that keeps failed validations out of the cache
cache_put_skip_errors(c, provider, key, result, t) ==
    LET kept == IF AtCapacity(c) THEN StoreDel(c.store, Oldest(c.store)) ELSE c.store
    IN  IF result.status = "network_error" THEN c
        ELSE [c EXCEPT !.store = StoreSet(kept, _cache_key(provider, key), result, t)]

\* ValidationCache.put, when it does not raise
cache_put(c, provider, key, result, t) ==
    LET kept == IF AtCapacity(c) THEN StoreDel(c.store, Oldest(c.store)) ELSE c.store
    IN  [c EXCEPT !.store = StoreSet(kept, _cache_key(provider, key), result, t)]

\* ValidationCache.clear
cache_clear(c) == [c EXCEPT !.store = <<>>]

-----------------------------------------------------------------------------
(* providers: names, env-var patterns, key formats *)

anthropic == <<"a", "n", "t", "h", "r", "o", "p", "i", "c">>
github == <<"g", "i", "t", "h", "u", "b">>
openai == <<"o", "p", "e", "n", "a", "i">>
twilio == <<"t", "w", "i", "l", "i", "o">>
deepseek == <<"d", "e", "e", "p", "s", "e", "e", "k">>
google == <<"g", "o", "o", "g", "l", "e">>
huggingface == <<"h", "u", "g", "g", "i", "n", "g", "f", "a", "c", "e">>
mistral == <<"m", "i", "s", "t", "r", "a", "l">>
nvidia == <<"n", "v", "i", "d", "i", "a">>
openrouter == <<"o", "p", "e", "n", "r", "o", "u", "t", "e", "r">>
sendgrid == <<"s", "e", "n", "d", "g", "r", "i", "d">>
slack == <<"s", "l", "a", "c", "k">>
stripe == <<"s", "t", "r", "i", "p", "e">>
together == <<"t", "o", "g", "e", "t", "h", "e", "r">>

\* Provider._registry after discover_providers(): the adapters modelled, in the
\* order their modules are imported (pkgutil.iter_modules: by module name)
registry == <<anthropic, github, openai, twilio>>

\* every adapter module of the providers package, by module name
adapters ==
    <<anthropic, deepseek, github, google, huggingface, mistral, nvidia, openai,
      openrouter, sendgrid, slack, stripe, together, twilio>>

SeqSet(q) == {q[i] : i \in 1..Len(q)}

Digits == {"0", "1", "2", "3", "4", "5", "6", "7", "8", "9"}
LowerAlpha ==
    {"a", "b", "c", "d", "e", "f", "g", "h", "i", "j", "k", "l", "m",
     "n", "o", "p", "q", "r", "s", "t", "u", "v", "w", "x", "y", "z"}
UpperAlpha ==
    {"A", "B", "C", "D", "E", "F", "G", "H", "I", "J", "K", "L", "M",
     "N", "O", "P", "Q", "R", "S", "T", "U", "V", "W", "X", "Y", "Z"}
AlNum == LowerAlpha \cup UpperAlpha \cup Digits
LowerHex == {"a", "b", "c", "d", "e", "f"} \cup Digits

\* str.upper() on the characters used: a lower-case letter and its capital are 27
\* places apart in ASCII as listed ("_" lies between the two alphabets)
UpperChar(c) == IF c \in LowerAlpha THEN ASCII[Ord(c) - 27] ELSE c
Upper(s) == [i \in 1..Len(s) |-> UpperChar(s[i])]

\* s.startswith(pre)
StartsWith(s, pre) == Len(s) >= Len(pre) /\ SubSeq(s, 1, Len(pre)) = pre

\* sub in s
Contains(s, sub) ==
    \E i \in 1..(Len(s) - Len(sub) + 1) : SubSeq(s, i, i + Len(sub) - 1) = sub

\* s[n:]
Drop(s, n) == SubSeq(s, n + 1, Len(s))

AllIn(s, class) == \A i \in 1..Len(s) : s[i] \in class

ALT == <<"_", "A", "L", "T">>

\* re.match(r"^BASE(_ALT\d+)?$", s)
MatchesBaseAlt(s, base) ==
    \/ s = base
    \/ /\ StartsWith(s, base \o ALT)
       /\ Len(s) > Len(base) + 4
       /\ AllIn(Drop(s, Len(base) + 4), Digits)

\* Provider.env_patterns: every pattern is ^(B1|B2|...)(_ALT\d+)?$; the names Bi
env_patterns(p) ==
    CASE p = anthropic -> {<<"A","N","T","H","R","O","P","I","C","_","A","P","I","_","K","E","Y">>}
      [] p = github -> {<<"G","I","T","H","U","B","_","T","O","K","E","N">>,
                        <<"G","I","T","H","U","B","_","A","P","I","_","K","E","Y">>,
                        <<"G","I","T","H","U","B","_","P","A","T">>,
                        <<"G","H","_","T","O","K","E","N">>}
      [] p = openai -> {<<"O","P","E","N","A","I","_","A","P","I","_","K","E","Y">>}
      [] p = twilio -> {<<"T","W","I","L","I","O","_","A","U","T","H","_","T","O","K","E","N">>}

\* Provider.matches_env_var
matches_env_var(p, env_var) == \E base \in env_patterns(p) : MatchesBaseAlt(env_var, base)

\* Provider.key_format as alternatives ^prefix[class]{min,max}$ (max = 0: no upper
\* limit); `then` is a second prefix[class]{min,max} after a first of fixed length,
\* `tail` the optional (_ALT\d+)? before "$".  The tail of the openai and anthropic
\* patterns adds nothing: "_", letters and digits are in the class before it.
key_format(p) ==
    LET url == AlNum \cup {"_", "-"}
    IN  CASE p = anthropic ->
                {[prefix |-> <<"s", "k", "-", "a", "n", "t", "-">>, class |-> url, min |-> 20, max |-> 0]}
          [] p = deepseek ->
                {[prefix |-> <<"s", "k", "-">>, class |-> LowerHex, min |-> 32, max |-> 0]}
          [] p = github ->
                {[prefix |-> <<"g", "h", "p", "_">>, class |-> AlNum, min |-> 36, max |-> 36],
                 [prefix |-> <<"g", "h", "o", "_">>, class |-> AlNum, min |-> 36, max |-> 36],
                 [prefix |-> <<"g", "i", "t", "h", "u", "b", "_", "p", "a", "t", "_">>,
                  class |-> AlNum \cup {"_"}, min |-> 22, max |-> 0]}
                \cup {[prefix |-> <<"v", d, ".">>, class |-> LowerHex, min |-> 40, max |-> 40] :
                         d \in Digits}
          [] p = google ->
                {[prefix |-> <<"A", "I", "z", "a">>, class |-> url, min |-> 35, max |-> 60]}
          [] p = huggingface ->
                {[prefix |-> <<"h", "f", "_">>, class |-> AlNum, min |-> 20, max |-> 0, tail |-> TRUE]}
          [] p = mistral ->
                {[prefix |-> <<>>, class |-> AlNum, min |-> 20, max |-> 0]}
          [] p = nvidia ->
                {[prefix |-> <<"n", "v", "a", "p", "i", "-">>, class |-> url, min |-> 40, max |-> 0]}
          [] p = openai ->
                {[prefix |-> <<"s", "k", "-">>, class |-> url, min |-> 20, max |-> 0]}
          [] p = openrouter ->
                {[prefix |-> <<"s", "k", "-", "o", "r", "-", "v", "1", "-">>,
                  class |-> LowerHex, min |-> 64, max |-> 64]}
          [] p = sendgrid ->
                {[prefix |-> <<"S", "G", ".">>, class |-> url, min |-> 22, max |-> 22,
                  then |-> [prefix |-> <<".">>, class |-> url, min |-> 43, max |-> 43],
                  tail |-> TRUE]}
          [] p = slack ->
                {[prefix |-> <<"x", "o", "x", c, "-">>, class |-> AlNum \cup {"-"},
                  min |-> 10, max |-> 0, tail |-> TRUE] : c \in {"b", "p", "a", "s"}}
          [] p = stripe ->
                {[prefix |-> a \o <<"_">> \o b \o <<"_">>, class |-> AlNum,
                  min |-> 10, max |-> 0, tail |-> TRUE] :
                    a \in {<<"s", "k">>, <<"r", "k">>}, b \in {<<"t", "e", "s", "t">>, <<"l", "i", "v", "e">>}}
          [] p = together ->
                {[prefix |-> <<>>, class |-> LowerHex, min |-> 64, max |-> 64]}
          [] p = twilio ->
                {[prefix |-> <<>>, class |-> LowerHex, min |-> 32, max |-> 32]}

\* ^prefix[class]{min,max}$
MatchesSimple(key, alt) ==
    /\ StartsWith(key, alt.prefix)
    /\ AllIn(Drop(key, Len(alt.prefix)), alt.class)
    /\ Len(key) - Len(alt.prefix) >= alt.min
    /\ (alt.max = 0 \/ Len(key) - Len(alt.prefix) <= alt.max)

\* ^_ALT\d+$
IsAltTail(s) == StartsWith(s, ALT) /\ Len(s) > 4 /\ AllIn(Drop(s, 4), Digits)

\* the alternative without its tail
MatchesCore(key, alt) ==
    IF "then" \in DOMAIN alt
    THEN LET n == Len(alt.prefix) + alt.min
         IN  /\ Len(key) >= n
             /\ MatchesSimple(SubSeq(key, 1, n), alt)
             /\ MatchesSimple(Drop(key, n), alt.then)
    ELSE MatchesSimple(key, alt)

MatchesAlt(key, alt) ==
    \/ MatchesCore(key, alt)
    \/ /\ "tail" \in DOMAIN alt
       /\ \E n \in 1..Len(key) :
             IsAltTail(Drop(key, n)) /\ MatchesCore(SubSeq(key, 1, n), alt)

\* check_format accepting every key
check_format_always_ok(p, key) == TRUE

\* Provider.check_format: ok iff key_format matches
check_format(p, key) == \E alt \in key_format(p) : MatchesAlt(key, alt)

\* the length of the literal text after "^" at the head of key_format's pattern:
\* github's pattern opens with a group, twilio's with a class
literal_prefix(p) ==
    CASE p = anthropic -> <<"s","k","-","a","n","t","-">>
      [] p = deepseek -> <<"s","k","-">>
      [] p = github -> <<>>
      [] p = google -> <<"A","I","z","a">>
      [] p = huggingface -> <<"h","f","_">>
      [] p = mistral -> <<>>
      [] p = nvidia -> <<"n","v","a","p","i","-">>
      [] p = openai -> <<"s","k","-">>
      [] p = openrouter -> <<"s","k","-","o","r","-","v","1","-">>
      [] p = sendgrid -> <<"S","G">>
      [] p = slack -> <<"x","o","x">>
      [] p = stripe -> <<>>
      [] p = together -> <<>>
      [] p = twilio -> <<>>

\* whether p comes before q for auto-detection: longer literal prefix first, and
\* among equals the lexically smaller name
DetectBefore(p, q) ==
    \/ Len(literal_prefix(p)) > Len(literal_prefix(q))
    \/ Len(literal_prefix(p)) = Len(literal_prefix(q)) /\ StrLess(p, q)

\* detect_provider_by_key returning None, as a name: no provider
Undetected == <<>>

\* the providers of `reg` whose key_format matches the key and whose literal
\* prefix is as long as that of any other provider that matches
MostSpecific(reg, key) ==
    LET cands == {p \in SeqSet(reg) : check_format(p, key)}
    IN  {p \in cands : \A q \in cands : Len(literal_prefix(p)) >= Len(literal_prefix(q))}

\* detection taking, among the most specific providers, the one registered first
detect_first_registered(reg, key) ==
    IF MostSpecific(reg, key) = {} THEN Undetected
    ELSE reg[MinOf({i \in 1..Len(reg) : reg[i] \in MostSpecific(reg, key)})]

\* detect_provider_by_key over the registry `reg`, a sequence of names in the
\* order of registration: the best provider whose key_format matches, or None
detect_among(reg, key) ==
    IF MostSpecific(reg, key) = {} THEN Undetected
    ELSE CHOOSE p \in MostSpecific(reg, key) :
            \A q \in MostSpecific(reg, key) \ {p} : DetectBefore(p, q)

\* detect_provider_by_key in audit()
detect_provider_by_key(key) == detect_among(registry, key)

\* no call of detect_provider_by_key made directly yet
NoDetect == [registry |-> <<>>, value |-> <<>>, ret |-> None]

-----------------------------------------------------------------------------
(* Provider.validate and Provider.check_key *)

\* What the shared client does with one request: an HTTP response, or an
\* exception raised at the await.  httpx.ConnectTimeout is an Exception;
\* asyncio.CancelledError is a BaseException that is not an Exception.
\* `body` is what the response body is: "not_json" (text that is no JSON, sent
\* with a content type that is not application/json), or a JSON object: one
\* with "ok": true ("ok"), one with "ok": false and the "error" named
\* ("invalid_auth", "account_inactive", "missing_scope"), or one with neither
\* field ("object").
\* `headers` are the three rate-limit headers of the family the adapter reads
\* (x-ratelimit-* or anthropic-ratelimit-requests-*), as integers; a header
\* that is absent reads 0.
NoHeaders == [limit |-> 0, remaining |-> 0, reset |-> 0]
HttpHeaders(code, flag, body, headers) ==
    [kind |-> "http", code |-> code, flag |-> flag, body |-> body, headers |-> headers,
     exc |-> "", msg |-> ""]
HttpBody(code, flag, body) == HttpHeaders(code, flag, body, NoHeaders)
Http(code, flag) == HttpBody(code, flag, "object")
Raises(exc, msg) ==
    [kind |-> "raise", code |-> 0, flag |-> FALSE, body |-> "", headers |-> NoHeaders,
     exc |-> exc, msg |-> msg]

\* int(time.time()) at the moment time.monotonic() reads t; the process starts
\* at an epoch time that _extract_rate_limit takes as an epoch (1_000_000_000)
Epoch == 1000000000
time_time(t) == Epoch + t

\* RateLimitInfo(limit=, remaining=, reset_ts=)
RateLimitInfo(limit, remaining, reset_ts) ==
    [limit |-> limit, remaining |-> remaining, reset_ts |-> reset_ts]

\* _extract_rate_limit: a reset below 1_000_000_000 is taken as seconds from now
_extract_rate_limit(headers, wall) ==
    IF headers.limit = 0 /\ headers.remaining = 0 THEN None
    ELSE RateLimitInfo(headers.limit, headers.remaining,
                       IF headers.reset < 1000000000 THEN wall + headers.reset
                       ELSE headers.reset)

\* AnthropicProvider._parse_rate_limit: the reset is always seconds from now
_parse_rate_limit(headers, wall) ==
    IF headers.limit = 0 /\ headers.remaining = 0 THEN None
    ELSE RateLimitInfo(headers.limit, headers.remaining, wall + headers.reset)

\* the rate_limit validate returns: `rl` for github, openai and anthropic, None
\* for every other adapter
validate_rate_limit(p, resp, wall) ==
    IF p \in {github, openai} THEN _extract_rate_limit(resp.headers, wall)
    ELSE IF p = anthropic THEN _parse_rate_limit(resp.headers, wall)
    ELSE None

IsException(exc) == exc # "CancelledError"

\* f"{type(exc).__name__}: {exc}"
ErrorDetail(exc, msg) == [type |-> exc, msg |-> msg]

TWILIO_ACCOUNT_SID ==
    <<"T","W","I","L","I","O","_","A","C","C","O","U","N","T","_","S","I","D">>

\* re.match(r"^AC[a-f0-9]{32}$", sid)
SidOk(sid) ==
    MatchesAlt(sid, [prefix |-> <<"A", "C">>, class |-> LowerHex, min |-> 32, max |-> 32])

\* os.environ.get(name, "")
EnvGet(env, name) == IF name \in DOMAIN env THEN env[name] ELSE <<>>

\* whether validate reaches its await client.get(...): twilio returns before it
\* when the account SID is missing or malformed
validate_sends(p, env) ==
    p = twilio => SidOk(EnvGet(env, TWILIO_ACCOUNT_SID))

\* validate when it returns without a request (twilio only)
validate_unsent(p, env) ==
    IF EnvGet(env, TWILIO_ACCOUNT_SID) = <<>>
    THEN [status |-> "network_error", error |-> ErrorDetail("", "TWILIO_ACCOUNT_SID not set")]
    ELSE [status |-> "network_error", error |-> ErrorDetail("", "Invalid TWILIO_ACCOUNT_SID format")]

\* _safe_json(resp) is imported by the adapters from the providers package and
\* its result is used as a dict at once: the body when it is a JSON object, and
\* an empty object otherwise
_safe_json(body) == IF body = "not_json" THEN "object" ELSE body

\* validate reading every body without raising
validate_raises_never(p, resp) == FALSE

\* whether validate raises while reading the response: resp.json() called on a
\* body that is no JSON
validate_raises(p, resp) ==
    /\ resp.kind = "http"
    /\ resp.code = 200
    /\ resp.body = "not_json"
    /\ p \in {anthropic, google, huggingface, openrouter, sendgrid, slack, stripe, together}

\* one mapping for every adapter: 200 valid, 401 auth_failed, 429
\* quota_exhausted, 403 insufficient_scope, anything else network_error
validate_http_uniform(p, resp) ==
    [status |-> CASE resp.code = 200 -> "valid"
                  [] resp.code = 401 -> "auth_failed"
                  [] resp.code = 429 -> "quota_exhausted"
                  [] resp.code = 403 -> "insufficient_scope"
                  [] OTHER -> "network_error",
     error |-> IF resp.code = 200 THEN None ELSE ErrorDetail("", "HTTP code")]

\* validate's reading of an HTTP response: (status, error_detail).  `resp.flag`
\* is the one other thing of body and headers the adapter branches on: for
\* github the header x-ratelimit-remaining = "0", for openai an error code naming
\* the account, for twilio the body's status "suspended", for google an error
\* message with "disabled" or "not enabled", for stripe the error code
\* "account_invalid".
validate_http(p, resp) ==
    LET code == resp.code
        st(status, msg) == [status |-> status, error |-> ErrorDetail("", msg)]
        ok == [status |-> "valid", error |-> None]
        other == st("network_error", "HTTP code")
        marked == resp.flag /\ _safe_json(resp.body) = resp.body
    IN  CASE p = github ->
                IF code = 200 THEN ok
                ELSE IF code = 401 THEN st("auth_failed", "Bad credentials")
                ELSE IF code = 403
                     THEN IF resp.flag THEN st("quota_exhausted", "Rate limit exceeded")
                          ELSE st("insufficient_scope", "Forbidden - missing scopes")
                ELSE other
          [] p = openai ->
                IF code = 200 THEN ok
                ELSE IF code = 401 THEN st("auth_failed", "Invalid API key")
                ELSE IF code = 429 THEN st("quota_exhausted", "Rate limit or quota exceeded")
                ELSE IF code = 403
                     THEN IF marked THEN st("suspended_account", "code")
                          ELSE st("insufficient_scope", "Forbidden")
                ELSE other
          [] p \in {anthropic, huggingface, sendgrid} ->
                IF code = 200 THEN ok
                ELSE IF code = 401
                     THEN st("auth_failed", IF p = huggingface THEN "Invalid token"
                                            ELSE "Invalid API key")
                ELSE IF code = 429
                     THEN st("quota_exhausted", IF p = anthropic THEN "Rate limit exceeded"
                                                ELSE "Rate limited")
                ELSE IF code = 403 THEN st("insufficient_scope", "Forbidden")
                ELSE other
          [] p = twilio ->
                IF code = 200
                THEN IF marked THEN st("suspended_account", "Account suspended")
                     ELSE ok
                ELSE IF code = 401 THEN st("auth_failed", "Invalid credentials")
                ELSE IF code = 429 THEN st("quota_exhausted", "Rate limited")
                ELSE other
          [] p \in {deepseek, mistral, together} ->
                IF code = 200 THEN ok
                ELSE IF code = 401 THEN st("auth_failed", "Invalid API key")
                ELSE IF code = 429 THEN st("quota_exhausted", "Rate limit exceeded")
                ELSE other
          [] p \in {nvidia, openrouter} ->
                IF code = 200 THEN ok
                ELSE IF code \in {401, 403} THEN st("auth_failed", "Invalid API key")
                ELSE IF code = 429 THEN st("quota_exhausted", "Rate limit exceeded")
                ELSE other
          [] p = google ->
                IF code = 200 THEN ok
                ELSE IF code = 400 THEN st("auth_failed", "Invalid API key")
                ELSE IF code = 403
                     THEN IF marked THEN st("suspended_account", "msg")
                          ELSE st("insufficient_scope", "msg")
                ELSE IF code = 429 THEN st("quota_exhausted", "Quota exceeded")
                ELSE other
          [] p = stripe ->
                IF code = 200 THEN ok
                ELSE IF code = 401 THEN st("auth_failed", "Invalid API key")
                ELSE IF code = 429 THEN st("quota_exhausted", "Rate limited")
                ELSE IF code = 403
                     THEN IF marked THEN st("suspended_account", "Account suspended")
                          ELSE st("insufficient_scope", "Forbidden")
                ELSE other
          [] p = slack ->
                IF code = 429 THEN st("quota_exhausted", "Rate limited, retry after")
                ELSE IF code # 200 THEN other
                ELSE IF resp.body = "ok" THEN ok
                ELSE IF resp.body = "account_inactive"
                     THEN st("suspended_account", resp.body)
                ELSE IF resp.body = "missing_scope"
                     THEN st("insufficient_scope", resp.body)
                ELSE IF resp.body = "invalid_auth" THEN st("auth_failed", resp.body)
                ELSE st("auth_failed", "unknown_error")

\* what validate is left with after its await: the response, or the exception
\* raised by the client or by the reading of the body
validate_outcome(p, resp) ==
    IF validate_raises(p, resp) THEN Raises("JSONDecodeError", "Expecting value") ELSE resp

\* check_key up to the await inside validate: the KeyResult it returns without
\* any request, or None when the request goes out
check_key_unsent(p, env_var, key, env) ==
    IF ~check_format(p, key)
    THEN KeyResult(p, env_var, from_key(key), "invalid_format", 0,
                   ErrorDetail("", "Key does not match expected format"))
    ELSE IF ~validate_sends(p, env)
    THEN KeyResult(p, env_var, from_key(key), validate_unsent(p, env).status, 1,
                   validate_unsent(p, env).error)
    ELSE None

\* check_key letting every exception of validate through
check_key_sent_uncaught(p, env_var, key, response, wall) ==
    LET resp == validate_outcome(p, response) IN
    IF resp.kind = "raise"
    THEN [raised |-> TRUE, exc |-> resp.exc, msg |-> resp.msg]
    ELSE [KeyResult(p, env_var, from_key(key), validate_http(p, resp).status, 1,
                    validate_http(p, resp).error)
            EXCEPT !.rate_limit = validate_rate_limit(p, resp, wall)]

\* check_key from the await on: the KeyResult returned, or the exception that
\* leaves check_key (except Exception does not catch a bare BaseException);
\* `wall` is what int(time.time()) reads inside validate
check_key_sent(p, env_var, key, response, wall) ==
    LET resp == validate_outcome(p, response) IN
    IF resp.kind = "raise"
    THEN IF IsException(resp.exc)
         THEN KeyResult(p, env_var, from_key(key), "network_error", 1,
                        ErrorDetail(resp.exc, resp.msg))
         ELSE [raised |-> TRUE, exc |-> resp.exc, msg |-> resp.msg]
    ELSE [KeyResult(p, env_var, from_key(key), validate_http(p, resp).status, 1,
                    validate_http(p, resp).error)
            EXCEPT !.rate_limit = validate_rate_limit(p, resp, wall)]

IsRaised(r) == "raised" \in DOMAIN r

\* Provider.check_key as one call
check_key(p, env_var, key, env, resp, wall) ==
    IF check_key_unsent(p, env_var, key, env) # None
    THEN check_key_unsent(p, env_var, key, env)
    ELSE check_key_sent(p, env_var, key, resp, wall)

\* no call of check_key made directly yet
NoCheck ==
    [provider |-> <<>>, env_var |-> <<>>, key |-> <<>>, env |-> <<>>, resp |-> None,
     ret |-> None, again |-> None]

-----------------------------------------------------------------------------
(* orchestrator.py: the parts of audit() *)

_FAIL_BAIL_THRESHOLD == 3
_CONCURRENCY_LIMIT == 10
_CACHE_TTL == 3600
_CACHE_MAX_SIZE == 10000

\* AuditLog.log: one buffered entry
LogEntry(event, provider, env_var, status) ==
    [event |-> event, provider |-> provider, env_var |-> env_var, status |-> status]

\* AuditSummary(0, 0, 0, 0, 0, 0, 0, 0, 0.0, 0)
EmptySummary ==
    [total_keys |-> 0, valid |-> 0, failed |-> 0, errors |-> 0, providers_checked |-> 0,
     providers_skipped |-> 0, cache_hits |-> 0, cache_misses |-> 0, auto_detected |-> 0]

\* {name: registry[name]() for name in providers}: a dict keeps the first place
\* of a repeated name
RECURSIVE Dedupe(_)
Dedupe(q) ==
    IF q = <<>> THEN <<>>
    ELSE LET front == Dedupe(SubSeq(q, 1, Len(q) - 1))
         IN  IF q[Len(q)] \in SeqSet(front) THEN front ELSE Append(front, q[Len(q)])

\* the active providers, in dict order
Active(providers) == IF providers # <<>> THEN Dedupe(providers) ELSE registry

SecretWords ==
    {<<"S","E","C","R","E","T">>, <<"T","O","K","E","N">>,
     <<"P","A","S","S","W","O","R","D">>, <<"K","E","Y">>, <<"A","U","T","H">>}

\* the test of the first injection loop on one line of the file
IsCompanion(line) ==
    /\ line.var # <<>>
    /\ line.value # <<>>
    /\ ~\E w \in SecretWords : Contains(Upper(line.var), w)

\* os.environ[var] = value
EnvSet(env, var, value) ==
    [n \in DOMAIN env \cup {var} |-> IF n = var THEN value ELSE env[n]]

\* os.environ.pop(var, None)
EnvPop(env, var) == [n \in DOMAIN env \ {var} |-> env[n]]

\* the first injection loop, over lines i..Len(file)
RECURSIVE InjectCompanions(_, _, _)
InjectCompanions(file, i, acc) ==
    IF i > Len(file) THEN acc
    ELSE IF IsCompanion(file[i]) /\ file[i].var \notin DOMAIN acc.environ
    THEN InjectCompanions(file, i + 1,
            [environ |-> EnvSet(acc.environ, file[i].var, file[i].value),
             injected |-> Append(acc.injected, file[i].var)])
    ELSE InjectCompanions(file, i + 1, acc)

\* env_vars[var] for a var in the file (the file holds each var once)
FileIndex(file, var) == (CHOOSE i \in 1..Len(file) : file[i].var = var)

\* the second injection loop: TWILIO_ACCOUNT_SID is set whether or not the
\* process had it
InjectSid(file, acc) ==
    IF /\ \E i \in 1..Len(file) : file[i].var = TWILIO_ACCOUNT_SID
       /\ file[FileIndex(file, TWILIO_ACCOUNT_SID)].value # <<>>
    THEN [environ |-> EnvSet(acc.environ, TWILIO_ACCOUNT_SID,
                             file[FileIndex(file, TWILIO_ACCOUNT_SID)].value),
          injected |-> Append(acc.injected, TWILIO_ACCOUNT_SID)]
    ELSE acc

\* both injection loops: the environment after them and _injected_env
Inject(file, env) ==
    InjectSid(file, InjectCompanions(file, 1, [environ |-> env, injected |-> <<>>]))

\* the cleanup loop over _injected_env[i..]
RECURSIVE PopAll(_, _, _)
PopAll(env, injected, i) ==
    IF i > Len(injected) THEN env
    ELSE PopAll(EnvPop(env, injected[i]), injected, i + 1)

\* the first active provider whose env patterns match var, or Undetected
MatchByName(act, var) ==
    IF \E k \in 1..Len(act) : matches_env_var(act[k], var)
    THEN act[MinOf({k \in 1..Len(act) : matches_env_var(act[k], var)})]
    ELSE Undetected

Task(var, key, provider, auto) ==
    [var |-> var, key |-> key, provider |-> provider, auto |-> auto]

\* the provider detected for a value, taken whether or not it is active
AutoDetect_unfiltered(value, act) == detect_provider_by_key(value)

\* lines 114-115: the provider detected for a value, if it is an active one
AutoDetect(value, act) ==
    IF detect_provider_by_key(value) # Undetected
       /\ detect_provider_by_key(value) \in SeqSet(act)
    THEN detect_provider_by_key(value)
    ELSE Undetected

\* the matching loop over lines i..Len(file): the tasks and the audit log
RECURSIVE MatchLines(_, _, _, _)
MatchLines(file, act, i, acc) ==
    IF i > Len(file) THEN acc
    ELSE LET var == file[i].var
             value == file[i].value
             byname == MatchByName(act, var)
             detected == AutoDetect(value, act)
         IN  IF var = <<>> \/ value = <<>> THEN MatchLines(file, act, i + 1, acc)
             ELSE IF byname # Undetected
             THEN MatchLines(file, act, i + 1,
                    [acc EXCEPT !.tasks = Append(@, Task(var, value, byname, FALSE))])
             ELSE IF detected # Undetected
             THEN MatchLines(file, act, i + 1,
                    [tasks |-> Append(acc.tasks, Task(var, value, detected, TRUE)),
                     alog |-> Append(acc.alog, LogEntry("auto_detect", detected, var, ""))])
             ELSE MatchLines(file, act, i + 1, acc)

\* dataclasses.replace(r, auto_detected=True)
replace_auto_detected(r) == [r EXCEPT !.auto_detected = TRUE]

\* the cache loop over tasks i..: cache, cached_results, uncached_tasks, log
RECURSIVE ProbeCache(_, _, _, _)
ProbeCache(matched, i, t, acc) ==
    IF i > Len(matched) THEN acc
    ELSE LET got == cache_get(acc.cache, matched[i].provider, matched[i].key, t)
             hit == IF matched[i].auto THEN replace_auto_detected(got.ret) ELSE got.ret
         IN  IF got.ret # None
             THEN ProbeCache(matched, i + 1, t,
                    [acc EXCEPT !.cache = got.cache,
                                !.cached_results = Append(@, hit),
                                !.alog = Append(@, LogEntry("cache_hit", matched[i].provider,
                                                            matched[i].var, hit.status))])
             ELSE ProbeCache(matched, i + 1, t,
                    [acc EXCEPT !.cache = got.cache,
                                !.uncached_tasks = Append(@, matched[i])])

\* the coercion losing track of the pair: the network_error names no env var
Coerce_unattributed(task, r) ==
    IF IsRaised(r)
    THEN KeyResult(task.provider, <<>>, from_key(task.key), "network_error", 0,
                   ErrorDetail(r.exc, r.msg))
    ELSE r

\* a task's exception given a status of its own
Coerce_cancelled(task, r) ==
    IF IsRaised(r)
    THEN KeyResult(task.provider, task.var, from_key(task.key), "cancelled", 0,
                   ErrorDetail(r.exc, r.msg))
    ELSE r

\* lines 159-167: a task's exception becomes a network_error KeyResult
Coerce(task, r) ==
    IF IsRaised(r)
    THEN KeyResult(task.provider, task.var, from_key(task.key), "network_error", 0,
                   ErrorDetail(r.exc, r.msg))
    ELSE r

\* AuditLog.log putting the entry ahead of the buffered ones
log_prepending(entries, entry) == <<entry>> \o entries

\* AuditLog.log: self._entries.append(entry)
log(entries, entry) == Append(entries, entry)

\* the loop over raw[i..]: cache, breaker, log, results
RECURSIVE JoinLoop(_, _, _, _, _)
JoinLoop(uncached, gathered, i, t, acc) ==
    IF i > Len(gathered) THEN acc
    ELSE LET task == uncached[i]
             result == Coerce(task, gathered[i])
             name == task.provider
             failing == result.status \in FAILING_STATUSES
             count == IF failing THEN acc.fail_counts[name] + 1 ELSE 0
             bail == failing /\ count >= _FAIL_BAIL_THRESHOLD
             final == IF task.auto THEN replace_auto_detected(result) ELSE result
             validated == LogEntry("validate", final.provider, final.env_var, final.status)
         IN  JoinLoop(uncached, gathered, i + 1, t,
                [cache |-> cache_put(acc.cache, name, task.key, result, t),
                 fail_counts |-> [acc.fail_counts EXCEPT ![name] = count],
                 skipped_providers |->
                    IF bail THEN acc.skipped_providers \cup {name} ELSE acc.skipped_providers,
                 alog |-> IF bail
                          THEN log(log(acc.alog, LogEntry("provider_bail", name, <<>>, "")),
                                   validated)
                          ELSE log(acc.alog, validated),
                 results |-> Append(acc.results, final)])

\* the key of results.sort: (r.provider, r.env_var), compared as tuples of str
SortKeyLess(a, b) ==
    \/ StrLess(a.provider, b.provider)
    \/ a.provider = b.provider /\ StrLess(a.env_var, b.env_var)

\* one step of a stable sort: x goes after the elements not greater than it
SortInsert(sorted, x) ==
    LET k == Cardinality({j \in 1..Len(sorted) : ~SortKeyLess(x, sorted[j])})
    IN  SubSeq(sorted, 1, k) \o <<x>> \o SubSeq(sorted, k + 1, Len(sorted))

\* results left as appended: cache hits first, then the batch in dispatch order
SortResults_unsorted(results) == results

\* results.sort(key=lambda r: (r.provider, r.env_var))
RECURSIVE SortResults(_)
SortResults(results) ==
    IF results = <<>> THEN <<>>
    ELSE SortInsert(SortResults(SubSeq(results, 1, Len(results) - 1)), results[Len(results)])

CountIf(results, S) == Cardinality({i \in 1..Len(results) : results[i].status \in S})

\* the summary counting every active provider as checked
Summary_checked_all(results, act, skipped, cache, auto_count) ==
    [total_keys |-> Len(results),
     valid |-> CountIf(results, {"valid"}),
     failed |-> CountIf(results, FAILING_STATUSES),
     errors |-> CountIf(results, {"network_error"}),
     providers_checked |-> Len(act),
     providers_skipped |-> Cardinality(skipped),
     cache_hits |-> cache.hits,
     cache_misses |-> cache.misses,
     auto_detected |-> auto_count]

\* lines 191-207
Summary(results, act, skipped, cache, auto_count) ==
    [total_keys |-> Len(results),
     valid |-> CountIf(results, {"valid"}),
     failed |-> CountIf(results, FAILING_STATUSES),
     errors |-> CountIf(results, {"network_error"}),
     providers_checked |-> Len(act) - Cardinality(skipped),
     providers_skipped |-> Cardinality(skipped),
     cache_hits |-> cache.hits,
     cache_misses |-> cache.misses,
     auto_detected |-> auto_count]

-----------------------------------------------------------------------------
(* agent_api.py: the credential broker *)

\* the permissions file: absent, not JSON, or a JSON object whose "allowed" is
\* a list of names (entries with a scope are not modelled)
PermissionsFile(state, allowed) == [state |-> state, allowed |-> allowed]
MissingFile == PermissionsFile("missing", <<>>)

\* no broker process, nothing disclosed
NoProcess == [mode |-> "none", env_vars |-> <<>>, permissions |-> None, creds |-> <<>>,
              reply |-> None]

NoBroker ==
    /\ permissions_file = MissingFile
    /\ broker = NoProcess
    /\ disclosed = {}

\* _load_env: {k: v for k, v in vals.items() if v}, in file order
_load_env(file) == SelectSeq(file, LAMBDA l : l.value # <<>>)

\* _load_permissions
_load_permissions(pfile) ==
    IF pfile.state = "json"
    THEN [allowed |-> pfile.allowed, deny_all |-> FALSE]
    ELSE [allowed |-> <<>>, deny_all |-> TRUE]

\* create_permissions_template: the file is written with "allowed": []
create_permissions_template == PermissionsFile("json", <<>>)

\* _get_allowed_creds: the pairs of the .env file whose name is allowed, and the
\* permissions file as the call leaves it
_get_allowed_creds(file, pfile) ==
    IF _load_permissions(pfile).deny_all
    THEN [creds |-> <<>>, pfile |-> create_permissions_template]
    ELSE [creds |-> SelectSeq(_load_env(file),
                              LAMBDA l : l.var \in SeqSet(_load_permissions(pfile).allowed)),
          pfile |-> pfile]

\* what an output tells of the .env file: a name, with its value or without
Told(via, name, value) == [via |-> via, name |-> name, value |-> value]
Pairs(via, creds) == {Told(via, creds[i].var, creds[i].value) : i \in 1..Len(creds)}
Names(via, names) == {Told(via, n, <<>>) : n \in names}

\* the reply to the last request: its status, and the credential asked for
Reply(status, asked) == [status |-> status, asked |-> asked]

\* the command-line modes: print_exports (--export), run_with_env (--env CMD)
\* and write_env_file (--write-env PATH) give every allowed pair to stdout, to
\* the environment of CMD, to the file
OneShot(via) ==
    LET got == _get_allowed_creds(env_file, permissions_file)
    IN  /\ broker.mode = "none"
        /\ permissions_file' = got.pfile
        /\ broker' = [NoProcess EXCEPT !.mode = "exited", !.creds = got.creds]
        /\ disclosed' = disclosed \cup Pairs(via, got.creds)
        /\ UNCHANGED auditorVars

print_exports == OneShot("export")
run_with_env == OneShot("env")
write_env_file == OneShot("write-env")

\* serve up to serve_forever: the server's handler closes over env_vars and
\* permissions as loaded now
serve ==
    LET loaded == _load_permissions(permissions_file)
        pfile == IF loaded.deny_all THEN create_permissions_template ELSE permissions_file
    IN  /\ broker.mode = "none"
        /\ _load_env(env_file) # <<>>
        /\ permissions_file' = pfile
        /\ broker' = [NoProcess EXCEPT !.mode = "http", !.env_vars = _load_env(env_file),
                                       !.permissions = _load_permissions(pfile)]
        /\ UNCHANGED <<disclosed, auditorVars>>

\* the names of env_vars some registered provider matches
ProviderVars(ev) ==
    {ev[i].var : i \in {k \in 1..Len(ev) : MatchByName(registry, ev[k].var) # Undetected}}

EnvNames(ev) == {ev[i].var : i \in 1..Len(ev)}
EnvValue(ev, name) == ev[CHOOSE i \in 1..Len(ev) : ev[i].var = name].value

\* Handler.do_GET for the paths /providers, /credentials and /health
do_GET(path, authorized) ==
    /\ broker.mode = "http"
    /\ IF ~authorized
       THEN /\ broker' = [broker EXCEPT !.reply = Reply("401", <<>>)]
            /\ UNCHANGED disclosed
       ELSE IF path = "/providers"
       THEN /\ broker' = [broker EXCEPT !.reply = Reply("200", <<>>)]
            /\ disclosed' = disclosed \cup Names("GET /providers", ProviderVars(broker.env_vars))
       ELSE IF path = "/credentials"
       THEN IF broker.permissions.deny_all
            THEN /\ broker' = [broker EXCEPT !.reply = Reply("403", <<>>)]
                 /\ UNCHANGED disclosed
            ELSE /\ broker' = [broker EXCEPT !.reply = Reply("200", <<>>)]
                 /\ disclosed' = disclosed \cup
                        Names("GET /credentials",
                              SeqSet(broker.permissions.allowed) \cap EnvNames(broker.env_vars))
       ELSE /\ broker' = [broker EXCEPT !.reply = Reply("200", <<>>)]
            /\ UNCHANGED disclosed
    /\ UNCHANGED <<permissions_file, auditorVars>>

\* Handler.do_POST for the path /credentials/{var_name}
do_POST(var_name, authorized) ==
    /\ broker.mode = "http"
    /\ IF ~authorized
       THEN /\ broker' = [broker EXCEPT !.reply = Reply("401", var_name)]
            /\ UNCHANGED disclosed
       ELSE IF broker.permissions.deny_all \/ var_name \notin SeqSet(broker.permissions.allowed)
       THEN /\ broker' = [broker EXCEPT !.reply = Reply("403", var_name)]
            /\ UNCHANGED disclosed
       ELSE IF var_name \notin EnvNames(broker.env_vars)
       THEN /\ broker' = [broker EXCEPT !.reply = Reply("404", var_name)]
            /\ UNCHANGED disclosed
       ELSE /\ broker' = [broker EXCEPT !.reply = Reply("200", var_name)]
            /\ disclosed' = disclosed \cup
                   {Told("POST /credentials", var_name, EnvValue(broker.env_vars, var_name))}
    /\ UNCHANGED <<permissions_file, auditorVars>>

\* run_mcp up to its loop: creds are the allowed pairs as loaded now
run_mcp ==
    LET got == _get_allowed_creds(env_file, permissions_file)
    IN  /\ broker.mode = "none"
        /\ permissions_file' = got.pfile
        /\ broker' = [NoProcess EXCEPT !.mode = "mcp", !.creds = got.creds,
                                       !.permissions = _load_permissions(got.pfile)]
        /\ UNCHANGED <<disclosed, auditorVars>>

\* tools/call list_credentials
mcp_list ==
    /\ broker.mode = "mcp"
    /\ broker' = [broker EXCEPT !.reply = Reply("names", <<>>)]
    /\ disclosed' = disclosed \cup Names("list_credentials", EnvNames(broker.creds))
    /\ UNCHANGED <<permissions_file, auditorVars>>

\* tools/call get_credential
mcp_get(var) ==
    /\ broker.mode = "mcp"
    /\ IF var \in EnvNames(broker.creds)
       THEN /\ broker' = [broker EXCEPT !.reply = Reply("value", var)]
            /\ disclosed' = disclosed \cup
                   {Told("get_credential", var, EnvValue(broker.creds, var))}
       ELSE /\ broker' = [broker EXCEPT !.reply = Reply("isError", var)]
            /\ UNCHANGED disclosed
    /\ UNCHANGED <<permissions_file, auditorVars>>

-----------------------------------------------------------------------------
(* bounds and inputs of the cache driven directly *)

MaxTtl == 2
MaxSize == 3
MaxClock == 2
MaxGets == 2

\* the (provider, secret) pairs the cache is called with
CachePairs ==
    {<<github, <<"a", "b">>>>, <<github, <<"a", "b", "c", "d", "e">>>>, <<openai, <<"a", "b">>>>}
CacheStatuses == {"valid", "network_error"}
CacheVar == <<"K">>

NoOp == [op |-> "none", provider |-> <<>>, key |-> <<>>, arg |-> None, ret |-> None,
         raised |-> FALSE]

NoPuts == [pk \in CachePairs |-> None]

-----------------------------------------------------------------------------
(* audit() as a process: start, the queued tasks, the join *)

\* task i ends: it is noted when this is the second queued task and the first
\* has not ended
Overtaking(i) == overtake \/ (i = 2 /\ tstate[1] # "done")

NoLocals ==
    /\ active = <<>>
    /\ tasks = <<>>
    /\ cached_results = <<>>
    /\ uncached_tasks = <<>>
    /\ alog = <<>>
    /\ _injected_env = <<>>
    /\ sem = 0
    /\ tstate = <<>>
    /\ raw = <<>>
    /\ sent = {}
    /\ overtake = FALSE

\* no call of audit() has ended yet (found: os.environ as the call found it)
NoCall ==
    [kind |-> "none", providers |-> <<>>, results |-> <<>>, summary |-> EmptySummary,
     _config_error |-> FALSE, tasks |-> <<>>, cached_results |-> <<>>,
     uncached_tasks |-> <<>>, raw |-> <<>>, sent |-> {}, injected |-> <<>>,
     skipped_providers |-> {}, fail_counts |-> [p \in SeqSet(registry) |-> 0],
     flushes |-> 0, overtake |-> FALSE, found |-> <<>>]

\* nothing of audit() in the state: the cache is driven alone
NoAudit ==
    /\ environ = <<>>
    /\ env_file = <<>>
    /\ transport = {}
    /\ disk = {}
    /\ callers = {}
    /\ called = NoCheck
    /\ detection = NoDetect
    /\ NoBroker
    /\ budget = 0
    /\ logfile = <<>>
    /\ pc = "idle"
    /\ NoLocals
    /\ out = NoCall

\* the abort without its flag: an empty result like that of a run that found nothing
ConfigErrorReturn_unflagged(providers) ==
    [NoCall EXCEPT !.kind = "returned", !.providers = providers]

\* lines 72-79: what audit() returns when a requested name is not registered
ConfigErrorReturn(providers) ==
    [NoCall EXCEPT !.kind = "returned", !.providers = providers, !._config_error = TRUE]

\* lines 72-74: some requested name is not in the registry
UnknownProvider(providers) ==
    providers # <<>> /\ \E i \in 1..Len(providers) : providers[i] \notin SeqSet(registry)

\* a semaphore that never blocks
sem_locked_never(s) == FALSE

\* asyncio.Semaphore: acquire blocks while the value is zero
sem_locked(s) == s = 0

\* AuditLog.flush of a batch of entries (never empty: audit_start is logged
\* first).  fs = "ok": the entries are appended to the file; "symlink": the path
\* is a symlink and the entries are dropped; "fails": mkdir, stat, rename, open
\* or write raises OSError, which nothing in flush catches.
flush(file, entries, fs) ==
    [logfile |-> IF fs = "ok" THEN Append(file, entries) ELSE file, raised |-> fs = "fails"]

\* audit() left by an exception: nothing is returned
AuditRaised(providers) == [NoCall EXCEPT !.kind = "raised", !.providers = providers]

AuditStartEntry == LogEntry("audit_start", <<>>, <<>>, "")
AuditEndEntry == LogEntry("audit_end", <<>>, <<>>, "")

\* audit() from its call to the first await (the gather), or to an early return
AuditStart(providers, fs) ==
    LET unknown == UnknownProvider(providers)
        act == Active(providers)
        inj == Inject(env_file, environ)
        m == MatchLines(env_file, act, 1, [tasks |-> <<>>, alog |-> <<AuditStartEntry>>])
        probe == ProbeCache(m.tasks, 1, now,
                    [cache |-> _cache, cached_results |-> <<>>, uncached_tasks |-> <<>>,
                     alog |-> m.alog])
    IN  /\ pc = "idle"
        /\ budget > 0
        /\ budget' = budget - 1
        /\ UNCHANGED <<now, last, lastput, worldVars>>
        /\ IF unknown
           THEN /\ out' = [ConfigErrorReturn(providers) EXCEPT !.found = environ]
                /\ UNCHANGED <<_cache, environ, logfile, pc, localVars>>
           ELSE IF m.tasks = <<>>
           THEN /\ environ' = inj.environ
                /\ logfile' = flush(logfile, Append(m.alog, AuditEndEntry), fs).logfile
                /\ out' = IF flush(logfile, Append(m.alog, AuditEndEntry), fs).raised
                          THEN [AuditRaised(providers) EXCEPT !.injected = inj.injected,
                                                              !.found = environ]
                          ELSE [NoCall EXCEPT !.kind = "returned", !.providers = providers,
                                              !.injected = inj.injected, !.flushes = 1,
                                              !.found = environ]
                /\ UNCHANGED <<_cache, pc, localVars>>
           ELSE /\ environ' = inj.environ
                /\ _cache' = probe.cache
                /\ pc' = "gather"
                /\ active' = act
                /\ tasks' = m.tasks
                /\ cached_results' = probe.cached_results
                /\ uncached_tasks' = probe.uncached_tasks
                /\ alog' = probe.alog
                /\ _injected_env' = inj.injected
                /\ sem' = _CONCURRENCY_LIMIT
                /\ tstate' = [i \in 1..Len(probe.uncached_tasks) |-> "pending"]
                /\ raw' = [i \in 1..Len(probe.uncached_tasks) |-> None]
                /\ sent' = {}
                /\ overtake' = FALSE
                /\ out' = [out EXCEPT !.providers = providers, !.found = environ]
                /\ UNCHANGED logfile

\* task i enters `async with sem` and runs check_key to its await, or to its end
\* when check_key returns without a request.  gather starts the tasks in the
\* order of uncached_tasks and the semaphore wakes its waiters first come first
\* served, so the tasks acquire in that order; the order in which the requests
\* are answered is free.
TaskAcquire(i) ==
    LET task == uncached_tasks[i]
        early == check_key_unsent(task.provider, task.var, task.key, environ)
    IN  /\ pc = "gather"
        /\ tstate[i] = "pending"
        /\ \A j \in 1..(i - 1) : tstate[j] # "pending"
        /\ ~sem_locked(sem)
        /\ IF early # None
           THEN /\ tstate' = [tstate EXCEPT ![i] = "done"]
                /\ raw' = [raw EXCEPT ![i] = early]
                /\ overtake' = Overtaking(i)
                /\ UNCHANGED <<sem, sent>>
           ELSE /\ tstate' = [tstate EXCEPT ![i] = "inflight"]
                /\ sem' = sem - 1
                /\ sent' = sent \cup {i}
                /\ UNCHANGED <<raw, overtake>>
        /\ UNCHANGED <<cacheVars, environ, worldVars, budget, logfile, pc, out,
                       active, tasks, cached_results, uncached_tasks, alog, _injected_env>>

\* the request of task i is answered (or fails); check_key ends and the
\* semaphore is released
TaskFinish(i, resp) ==
    LET task == uncached_tasks[i]
    IN  /\ pc = "gather"
        /\ tstate[i] = "inflight"
        /\ tstate' = [tstate EXCEPT ![i] = "done"]
        /\ raw' = [raw EXCEPT ![i] = check_key_sent(task.provider, task.var, task.key, resp,
                                                  time_time(now))]
        /\ sem' = sem + 1
        /\ overtake' = Overtaking(i)
        /\ UNCHANGED <<cacheVars, environ, worldVars, budget, logfile, pc, out, sent,
                       active, tasks, cached_results, uncached_tasks, alog, _injected_env>>

\* gather returns: audit() from line 156 to its return
AuditJoin(fs) ==
    LET j == JoinLoop(uncached_tasks, raw, 1, now,
                [cache |-> _cache, fail_counts |-> [p \in SeqSet(registry) |-> 0],
                 skipped_providers |-> {}, alog |-> alog, results |-> cached_results])
        results == SortResults(j.results)
        auto_detected_count == Cardinality({i \in 1..Len(tasks) : tasks[i].auto})
        flushed == flush(logfile, Append(j.alog, AuditEndEntry), fs)
        run == [kind |-> "returned", providers |-> out.providers, results |-> results,
                summary |-> Summary(results, active, j.skipped_providers, j.cache,
                                    auto_detected_count),
                _config_error |-> FALSE, tasks |-> tasks,
                cached_results |-> cached_results, uncached_tasks |-> uncached_tasks,
                raw |-> raw, sent |-> sent, injected |-> _injected_env,
                skipped_providers |-> j.skipped_providers,
                fail_counts |-> j.fail_counts, flushes |-> 1, overtake |-> overtake,
                found |-> out.found]
    IN  /\ pc = "gather"
        /\ \A i \in 1..Len(tstate) : tstate[i] = "done"
        /\ _cache' = j.cache
        /\ logfile' = flushed.logfile
        /\ environ' = IF flushed.raised THEN environ ELSE PopAll(environ, _injected_env, 1)
        /\ out' = IF flushed.raised
                  THEN [run EXCEPT !.kind = "raised", !.results = <<>>,
                                   !.summary = EmptySummary, !.flushes = 0]
                  ELSE run
        /\ pc' = "idle"
        /\ active' = <<>>
        /\ tasks' = <<>>
        /\ cached_results' = <<>>
        /\ uncached_tasks' = <<>>
        /\ alog' = <<>>
        /\ _injected_env' = <<>>
        /\ sem' = 0
        /\ tstate' = <<>>
        /\ raw' = <<>>
        /\ sent' = {}
        /\ overtake' = FALSE
        /\ UNCHANGED <<now, last, lastput, worldVars, budget>>

\* between two calls of audit(), the TTL of the cache goes by
Elapse ==
    /\ pc = "idle"
    /\ now < _cache.ttl
    /\ now' = now + _cache.ttl
    /\ UNCHANGED <<_cache, last, lastput, auditVars>>

Next ==
    \/ \E providers \in callers, fs \in disk : AuditStart(providers, fs)
    \/ \E i \in 1..Len(tstate) : TaskAcquire(i)
    \/ \E i \in 1..Len(tstate), resp \in transport : TaskFinish(i, resp)
    \/ \E fs \in disk : AuditJoin(fs)
    \/ Elapse

\* the process starts: the module-level cache is empty
InitAuditOn(files, environs, responses, args, calls, disks) ==
    /\ _cache = ValidationCache(_CACHE_TTL, _CACHE_MAX_SIZE)
    /\ now = 0
    /\ last = NoOp
    /\ lastput = NoPuts
    /\ environ \in environs
    /\ env_file \in files
    /\ transport = responses
    /\ disk = disks
    /\ callers = args
    /\ called = NoCheck
    /\ detection = NoDetect
    /\ NoBroker
    /\ budget = calls
    /\ logfile = <<>>
    /\ pc = "idle"
    /\ NoLocals
    /\ out = NoCall

\* the same with a file system that takes every flush
InitAudit(files, environs, responses, args, calls) ==
    InitAuditOn(files, environs, responses, args, calls, {"ok"})

-----------------------------------------------------------------------------
(* The inputs of audit(): env files, environments, network answers *)

GITHUB_TOKEN == <<"G","I","T","H","U","B","_","T","O","K","E","N">>
GH_TOKEN == <<"G","H","_","T","O","K","E","N">>
OPENAI_API_KEY == <<"O","P","E","N","A","I","_","A","P","I","_","K","E","Y">>
TWILIO_AUTH_TOKEN == <<"T","W","I","L","I","O","_","A","U","T","H","_","T","O","K","E","N">>
APP_NAME == <<"A","P","P","_","N","A","M","E">>
MY_CLAUDE == <<"M","Y","_","C","L","A","U","D","E">>

\* secrets and values
GhpSecret == <<"g","h","p","_">> \o Rep("A", 36)
BadToken == <<"b","a","d","-","t","o","k","e","n">>
SkSecret == <<"s","k","-">> \o Rep("a", 20)
SkAntSecret == <<"s","k","-","a","n","t","-">> \o Rep("a", 20)
TwilioSecret == Rep("a", 32)
FileSid == <<"A", "C">> \o Rep("0", 32)
CallerSid == <<"A", "C">> \o Rep("1", 32)
Demo == <<"d","e","m","o">>

Line(var, value) == [var |-> var, value |-> value]

\* all files of at most n lines over `lines`, no var twice
RECURSIVE FilesOver(_, _)
FilesOver(lines, n) ==
    IF n = 0 THEN {<<>>}
    ELSE LET shorter == FilesOver(lines, n - 1)
         IN  shorter \cup
             {Append(f, l) : f \in {g \in shorter : Len(g) = n - 1},
                             l \in lines} 

DistinctVars(f) == \A i, j \in 1..Len(f) : i # j => f[i].var # f[j].var

MaxLines == 2
MaxRuns == 2

nope == <<"n","o","p","e">>

Lines ==
    {Line(GITHUB_TOKEN, GhpSecret), Line(GITHUB_TOKEN, BadToken),
     Line(GH_TOKEN, GhpSecret), Line(OPENAI_API_KEY, SkSecret),
     Line(MY_CLAUDE, SkAntSecret),
     Line(APP_NAME, Demo), Line(TWILIO_ACCOUNT_SID, FileSid),
     Line(TWILIO_AUTH_TOKEN, TwilioSecret)}

EnvFiles == {f \in FilesOver(Lines, MaxLines) : DistinctVars(f)}

\* os.environ of the caller: nothing of interest set, or an account SID of its own
Environs == {<<>>, EnvSet(<<>>, TWILIO_ACCOUNT_SID, CallerSid)}

Responses ==
    {Http(200, FALSE), Http(401, FALSE), Raises("ConnectTimeout", "timed out"),
     Raises("CancelledError", "")}

ProviderArgs == {<<>>, <<openai>>, <<github, nope>>}

Init == InitAudit(EnvFiles, Environs, Responses, ProviderArgs, MaxRuns)

Spec == Init /\ [][Next]_vars

\* the same calls of audit() over a file system that may take a flush, drop it
\* (the log path is a symlink) or fail it
DiskOutcomes == {"ok", "symlink", "fails"}

InitLog == InitAuditOn(EnvFiles, {<<>>}, Responses, {<<>>}, 1, DiskOutcomes)

SpecLog == InitLog /\ [][Next]_vars

\* files with a batch in them: three github pairs (two of them with the same
\* secret) and a pair only auto-detection matches; a malformed key among
\* well-formed ones; four github pairs; no pair of any provider
GITHUB_TOKEN_ALT1 == GITHUB_TOKEN \o ALT \o <<"1">>
GH_TOKEN_ALT1 == GH_TOKEN \o ALT \o <<"1">>
GhpSecretB == <<"g","h","p","_">> \o Rep("B", 36)

BatchFiles ==
    {<<Line(GITHUB_TOKEN, GhpSecret), Line(MY_CLAUDE, SkAntSecret),
       Line(GH_TOKEN, GhpSecret), Line(GITHUB_TOKEN_ALT1, GhpSecretB)>>,
     <<Line(OPENAI_API_KEY, SkSecret), Line(GITHUB_TOKEN, BadToken),
       Line(GH_TOKEN, GhpSecret), Line(GITHUB_TOKEN_ALT1, GhpSecretB)>>,
     <<Line(GITHUB_TOKEN, GhpSecret), Line(GH_TOKEN, GhpSecretB),
       Line(GITHUB_TOKEN_ALT1, GhpSecret), Line(GH_TOKEN_ALT1, GhpSecretB)>>,
     <<Line(APP_NAME, Demo)>>}

BatchResponses == {Http(200, FALSE), Http(401, FALSE), Raises("CancelledError", "")}

InitBatch == InitAudit(BatchFiles, {<<>>}, BatchResponses, {<<>>}, MaxRuns)

SpecBatch == InitBatch /\ [][Next]_vars

\* one file with more pairs than the semaphore admits, and a network that answers
SemTasks == 11

SemFile == [i \in 1..SemTasks |-> Line(OPENAI_API_KEY \o ALT \o Rep("1", i), SkSecret)]

InitSem == InitAudit({SemFile}, {<<>>}, {Http(200, FALSE)}, {<<>>}, 1)

\* a step of a task of the batch while audit() awaits the gather
LoopStep ==
    \/ \E i \in 1..Len(tstate) : TaskAcquire(i)
    \/ \E i \in 1..Len(tstate), resp \in transport : TaskFinish(i, resp)

\* the event loop does not stop while a task can run, and every request is
\* answered (or times out)
SpecSem == InitSem /\ [][Next]_vars /\ WF_vars(LoopStep)

-----------------------------------------------------------------------------
(* The cache driven directly: get, put and clear in any order, time passing *)

CacheInit ==
    /\ \E ttl \in 1..MaxTtl, max_size \in 0..MaxSize :
          _cache = ValidationCache(ttl, max_size)
    /\ now = 0
    /\ last = NoOp
    /\ lastput = NoPuts
    /\ NoAudit

\* put(p, s, r) for a result r of status st
CachePut(p, s, st) ==
    LET r == KeyResult(p, CacheVar, from_key(s), st, 0, None)
    IN  /\ IF put_raises(_cache)
           THEN UNCHANGED <<_cache, lastput>>
           ELSE /\ _cache' = cache_put(_cache, p, s, r, now)
                /\ lastput' = [lastput EXCEPT ![<<p, s>>] = [result |-> r, at |-> now]]
        /\ last' = [op |-> "put", provider |-> p, key |-> s, arg |-> r, ret |-> None,
                    raised |-> put_raises(_cache)]
        /\ UNCHANGED <<now, auditVars>>

CacheGet(p, s) ==
    /\ _cache.hits + _cache.misses < MaxGets
    /\ _cache' = cache_get(_cache, p, s, now).cache
    /\ last' = [op |-> "get", provider |-> p, key |-> s, arg |-> None,
                ret |-> cache_get(_cache, p, s, now).ret, raised |-> FALSE]
    /\ UNCHANGED <<now, lastput, auditVars>>

CacheClear ==
    /\ _cache' = cache_clear(_cache)
    /\ last' = [NoOp EXCEPT !.op = "clear"]
    /\ UNCHANGED <<now, lastput, auditVars>>

Tick ==
    /\ now < MaxClock
    /\ now' = now + 1
    /\ last' = [NoOp EXCEPT !.op = "tick"]
    /\ UNCHANGED <<_cache, lastput, auditVars>>

CacheNext ==
    \/ \E pk \in CachePairs, st \in CacheStatuses : CachePut(pk[1], pk[2], st)
    \/ \E pk \in CachePairs : CacheGet(pk[1], pk[2])
    \/ CacheClear
    \/ Tick

SpecCache == CacheInit /\ [][CacheNext]_vars

-----------------------------------------------------------------------------
(* check_key called directly: every adapter, well-formed and malformed secrets, *)
(* every answer of the network                                                  *)

\* a secret of the adapter's key format
SampleKey(p) ==
    CASE p = anthropic -> SkAntSecret
      [] p = deepseek -> <<"s", "k", "-">> \o Rep("a", 32)
      [] p = github -> GhpSecret
      [] p = google -> <<"A", "I", "z", "a">> \o Rep("A", 35)
      [] p = huggingface -> <<"h", "f", "_">> \o Rep("A", 20)
      [] p = mistral -> Rep("A", 20)
      [] p = nvidia -> <<"n", "v", "a", "p", "i", "-">> \o Rep("A", 40)
      [] p = openai -> SkSecret
      [] p = openrouter -> <<"s", "k", "-", "o", "r", "-", "v", "1", "-">> \o Rep("a", 64)
      [] p = sendgrid -> <<"S", "G", ".">> \o Rep("A", 22) \o <<".">> \o Rep("A", 43)
      [] p = slack -> <<"x", "o", "x", "b", "-">> \o Rep("A", 10)
      [] p = stripe -> <<"s", "k", "_", "t", "e", "s", "t", "_">> \o Rep("A", 10)
      [] p = together -> Rep("a", 64)
      [] p = twilio -> TwilioSecret

\* secrets of 3 and of 8 characters
Pin == <<"a", "b", "c">>
Passw0rd == <<"P", "a", "s", "s", "w", "0", "r", "d">>

CheckKeys(p) == {SampleKey(p), BadToken, Pin, Passw0rd}

Bodies == {"object", "ok", "invalid_auth", "account_inactive", "missing_scope", "not_json"}
Codes == {200, 400, 401, 403, 429, 500}

CheckResponses ==
    {HttpBody(code, flag, body) : code \in Codes, flag \in BOOLEAN, body \in Bodies}
    \cup {Raises("ConnectTimeout", "timed out"), Raises("CancelledError", "")}

CheckInit == InitAudit({<<>>}, Environs, CheckResponses, {}, 0)

\* await provider.check_key(env_var, key, client), once, by a process that does
\* not run audit()
CheckKey(p, key, resp) ==
    /\ called = NoCheck
    /\ budget = 0
    /\ out = NoCall
    /\ called' = [provider |-> p, env_var |-> CacheVar, key |-> key, env |-> environ,
                  resp |-> resp,
                  ret |-> check_key(p, CacheVar, key, environ, resp, time_time(now)),
                  again |-> None]
    /\ UNCHANGED <<cacheVars, environ, env_file, transport, disk, callers, detection, budget,
                   logfile, pc, localVars, out, brokerVars>>

CheckNext ==
    \E p \in SeqSet(adapters), resp \in transport :
        \E key \in CheckKeys(p) : CheckKey(p, key, resp)

SpecCheckKey == CheckInit /\ [][CheckNext]_vars

\* a process that calls check_key directly, or one that runs audit()
StatusInit == CheckInit \/ Init
StatusNext == CheckNext \/ Next
SpecStatus == StatusInit /\ [][StatusNext]_vars

-----------------------------------------------------------------------------
(* check_key called twice with the same arguments against the same mocked       *)
(* response, time passing or not between the two calls                          *)

\* mocked responses: rate-limit headers with a reset in seconds from now, with a
\* reset that is an epoch, with remaining 0, and without the headers
RateResponses ==
    {HttpHeaders(200, FALSE, "object", [limit |-> 60, remaining |-> 59, reset |-> 30]),
     HttpHeaders(200, FALSE, "object", [limit |-> 60, remaining |-> 59, reset |-> Epoch + 900]),
     HttpHeaders(429, TRUE, "object", [limit |-> 60, remaining |-> 0, reset |-> 30]),
     Http(200, FALSE), Http(401, FALSE), Raises("ConnectTimeout", "timed out")}

RateInit == InitAudit({<<>>}, Environs, RateResponses, {}, 0)

\* the same call of check_key a second time: same provider, env var and secret,
\* the client mocked with the same response
CheckAgain ==
    /\ called # NoCheck
    /\ called.again = None
    /\ called' = [called EXCEPT !.again =
                     check_key(called.provider, called.env_var, called.key, environ,
                               called.resp, time_time(now))]
    /\ UNCHANGED <<cacheVars, environ, env_file, transport, disk, callers, detection, budget,
                   logfile, pc, localVars, out, brokerVars>>

RateNext ==
    \/ \E p \in SeqSet(adapters), resp \in transport : CheckKey(p, SampleKey(p), resp)
    \/ CheckAgain
    \/ Elapse

SpecRate == RateInit /\ [][RateNext]_vars

-----------------------------------------------------------------------------
(* detect_provider_by_key called directly, the adapters registered in any order *)

\* sets of adapters with key formats that overlap
DetectSets ==
    {{anthropic, deepseek, openai}, {mistral, together, twilio},
     {deepseek, github, mistral, openai}}

\* every order in which the adapters of S may register
OrdersOf(S) == {q \in [1..Cardinality(S) -> S] : SeqSet(q) = S}

Registrations == UNION {OrdersOf(S) : S \in DetectSets}

DetectValues ==
    {SampleKey(deepseek), SkAntSecret, TwilioSecret, SampleKey(together), GhpSecret, Demo}

DetectInit ==
    /\ _cache = ValidationCache(_CACHE_TTL, _CACHE_MAX_SIZE)
    /\ now = 0
    /\ last = NoOp
    /\ lastput = NoPuts
    /\ environ = <<>>
    /\ env_file = <<>>
    /\ transport = {}
    /\ disk = {}
    /\ callers = {}
    /\ called = NoCheck
    /\ detection \in {[NoDetect EXCEPT !.registry = reg] : reg \in Registrations}
    /\ NoBroker
    /\ budget = 0
    /\ logfile = <<>>
    /\ pc = "idle"
    /\ NoLocals
    /\ out = NoCall

\* detect_provider_by_key(value), by a process that does not run audit()
Detect(value) ==
    /\ detection.registry # <<>>
    /\ detection' = [detection EXCEPT !.value = value,
                                      !.ret = detect_among(detection.registry, value)]
    /\ UNCHANGED <<cacheVars, environ, env_file, transport, disk, callers, called, budget,
                   logfile, pc, localVars, out, brokerVars>>

DetectNext == \E value \in DetectValues : Detect(value)

SpecDetect == DetectInit /\ [][DetectNext]_vars

-----------------------------------------------------------------------------
(* The broker run in one of its modes over a .env file and a permissions file,  *)
(* and asked any sequence of requests                                           *)

BrokerLines ==
    {Line(GITHUB_TOKEN, GhpSecret), Line(OPENAI_API_KEY, SkSecret), Line(APP_NAME, Demo)}

BrokerFiles == {f \in FilesOver(BrokerLines, MaxLines) : DistinctVars(f)}

PermissionsFiles ==
    {MissingFile, PermissionsFile("invalid", <<>>)}
    \cup {PermissionsFile("json", allowed) :
             allowed \in {<<>>, <<GITHUB_TOKEN>>, <<APP_NAME, GITHUB_TOKEN>>,
                          <<TWILIO_AUTH_TOKEN>>}}

\* the names an agent asks for
Requested == {GITHUB_TOKEN, OPENAI_API_KEY, APP_NAME, TWILIO_AUTH_TOKEN}

Paths == {"/providers", "/credentials", "/health"}

BrokerInit ==
    /\ _cache = ValidationCache(_CACHE_TTL, _CACHE_MAX_SIZE)
    /\ now = 0
    /\ last = NoOp
    /\ lastput = NoPuts
    /\ environ = <<>>
    /\ env_file \in BrokerFiles
    /\ transport = {}
    /\ disk = {}
    /\ callers = {}
    /\ called = NoCheck
    /\ detection = NoDetect
    /\ permissions_file \in PermissionsFiles
    /\ broker = NoProcess
    /\ disclosed = {}
    /\ budget = 0
    /\ logfile = <<>>
    /\ pc = "idle"
    /\ NoLocals
    /\ out = NoCall

BrokerNext ==
    \/ print_exports
    \/ run_with_env
    \/ write_env_file
    \/ serve
    \/ \E path \in Paths, authorized \in BOOLEAN : do_GET(path, authorized)
    \/ \E var_name \in Requested, authorized \in BOOLEAN : do_POST(var_name, authorized)
    \/ run_mcp
    \/ mcp_list
    \/ \E var \in Requested : mcp_get(var)

SpecBroker == BrokerInit /\ [][BrokerNext]_vars

-----------------------------------------------------------------------------
(* Properties of audit() and check_key *)

\* a call of audit() has returned and nothing runs
Returned == pc = "idle" /\ out.kind = "returned"

\* the tasks inside check_key, holding the semaphore
InFlight == {i \in 1..Len(tstate) : tstate[i] = "inflight"}

TaskIs(i, st) == pc = "gather" /\ i \in 1..Len(tstate) /\ tstate[i] = st

\* C2: during a run at most 10 tasks are inside check_key at once, however many
\* pairs are queued and in whatever order tasks start and finish; and every
\* queued task in time acquires the semaphore and then completes, every request
\* being answered.
C2_Bounded ==
    /\ [](Cardinality(InFlight) <= 10)
    /\ (\E i \in 1..SemTasks : TaskIs(i, "pending") \/ TaskIs(i, "inflight"))
          ~> (\A i \in 1..SemTasks : TaskIs(i, "done") /\ i \in sent)

\* ten tasks hold the semaphore and the eleventh waits for it
C2_Witness ==
    /\ pc = "gather"
    /\ Len(tstate) = SemTasks
    /\ Cardinality(InFlight) = 10
    /\ sem = 0
    /\ \E i \in 1..Len(tstate) : tstate[i] = "pending"

\* the result the join is to take for queued task i of the returned call: the
\* task's own KeyResult, or for a task that raised a network_error of its pair
FreshResult(i) ==
    LET task == out.uncached_tasks[i]
        r == out.raw[i]
        own == IF IsRaised(r)
               THEN [provider |-> task.provider, env_var |-> task.var,
                     key_fingerprint |-> from_key(task.key), status |-> "network_error",
                     rate_limit |-> None, latency_ms |-> 0,
                     error_detail |-> ErrorDetail(r.exc, r.msg), auto_detected |-> FALSE]
               ELSE r
    IN  [own EXCEPT !.auto_detected = task.auto]

\* cache hits first, then the queued pairs in dispatch order
Expected == out.cached_results \o [i \in 1..Len(out.uncached_tasks) |-> FreshResult(i)]

\* C1: a call of audit() that dispatched tasks returns exactly one result per
\* matched pair, cache hits plus queued pairs: each queued task's own KeyResult
\* unchanged, and for a task that raised a network_error KeyResult of that
\* task's (env_var, provider); pairs of a provider that ended in the skip set
\* are among them.
C1_FaultIsolation ==
    out.kind = "returned" /\ out.uncached_tasks # <<>> =>
        /\ Len(out.results) = Len(out.tasks)
        /\ Len(out.tasks) = Len(out.cached_results) + Len(out.uncached_tasks)
        /\ \A i \in 1..Len(out.uncached_tasks) :
              /\ FreshResult(i).env_var = out.uncached_tasks[i].var
              /\ FreshResult(i).provider = out.uncached_tasks[i].provider
        /\ \E f \in Permutations(1..Len(out.results)) :
              \A k \in 1..Len(out.results) : out.results[f[k]] = Expected[k]

\* a returned batch of four: one task raised, three failing results put github
\* in the skip set, and one task's valid result stands
C1_Witness ==
    /\ Returned
    /\ Len(out.results) = 4
    /\ Len(out.uncached_tasks) = 4
    /\ \E i \in 1..4 : IsRaised(out.raw[i])
    /\ github \in out.skipped_providers
    /\ \E k \in 1..4 : out.results[k].status = "network_error"
    /\ \E k \in 1..4 : out.results[k].provider = github /\ out.results[k].status = "auth_failed"

\* (a.provider, a.env_var) <= (b.provider, b.env_var)
KeyLeq(a, b) ==
    \/ a.provider = b.provider /\ a.env_var = b.env_var
    \/ StrLess(a.provider, b.provider)
    \/ a.provider = b.provider /\ StrLess(a.env_var, b.env_var)

\* C3: the list audit() returns is ascending by (provider, env_var): every two
\* adjacent results are in order, whatever the order of the file, whichever
\* results came from the cache and in whatever order the tasks completed.
C3_Sorted ==
    out.kind = "returned" =>
        \A i \in 1..(Len(out.results) - 1) : KeyLeq(out.results[i], out.results[i + 1])

\* a cache hit and a fresh result were returned, and the fresh one was put before
\* the hit that had been appended first
C3_Witness ==
    /\ Returned
    /\ Len(out.cached_results) = 1
    /\ Len(out.uncached_tasks) = 1
    /\ Len(out.results) = 2
    /\ out.results[2] = out.cached_results[1]
    /\ out.results[1].provider # out.results[2].provider

\* what check_key is to return when validate raised exc with message msg
CaughtResult(task, resp) ==
    KeyResult(task.provider, task.var, from_key(task.key), "network_error", 1,
              ErrorDetail(resp.exc, resp.msg))

\* C4 as stated: check_key never raises; whenever validate raises, whatever the
\* exception, check_key returns a network_error KeyResult whose error_detail is
\* the exception's type name and message.
C4_AsStated ==
    [][\A i \in 1..Len(tstate), resp \in transport :
          TaskFinish(i, resp) =>
              /\ ~IsRaised(raw'[i])
              /\ resp.kind = "raise" => raw'[i] = CaughtResult(uncached_tasks[i], resp)]_vars

\* C4: check_key raises nothing that is an Exception: when validate raises an
\* Exception (a timeout, a malformed response, a provider bug) check_key returns
\* a network_error KeyResult whose error_detail is the exception's type name and
\* message, and when validate returns check_key returns a KeyResult.  An
\* exception that is only a BaseException (asyncio.CancelledError) is not caught:
\* it leaves check_key unchanged.
C4_ExceptionsCaught ==
    [][\A i \in 1..Len(tstate), resp \in transport :
          TaskFinish(i, resp) =>
              /\ resp.kind = "http" => ~IsRaised(raw'[i])
              /\ resp.kind = "raise" /\ resp.exc # "CancelledError" =>
                    raw'[i] = CaughtResult(uncached_tasks[i], resp)
              /\ resp.kind = "raise" /\ resp.exc = "CancelledError" =>
                    /\ IsRaised(raw'[i])
                    /\ raw'[i].exc = resp.exc]_vars

\* one task of the batch ended on a caught timeout, another on the exception that
\* went through
C4_Witness ==
    /\ pc = "gather"
    /\ \E i \in 1..Len(raw) :
          /\ raw[i] # None
          /\ ~IsRaised(raw[i])
          /\ raw[i].status = "network_error"
          /\ raw[i].error_detail = ErrorDetail("ConnectTimeout", "timed out")
    /\ \E i \in 1..Len(raw) : raw[i] # None /\ IsRaised(raw[i])

\* key matches none of the alternatives of the provider's key_format
FailsFormat(p, key) == \A alt \in key_format(p) : ~MatchesAlt(key, alt)

\* C5: a task whose secret fails its provider's format ends in check_key with
\* status invalid_format, latency_ms 0 and no request sent (validate is not
\* called); in particular GITHUB_TOKEN holding "bad-token" is returned by
\* audit() as invalid_format and its task made no network call.
C5_FormatFirst ==
    /\ [][\A i \in 1..Len(tstate) :
             TaskAcquire(i) /\ FailsFormat(uncached_tasks[i].provider, uncached_tasks[i].key) =>
                 /\ tstate'[i] = "done"
                 /\ raw'[i].status = "invalid_format"
                 /\ raw'[i].latency_ms = 0
                 /\ i \notin sent'
                 /\ sent' = sent]_vars
    /\ [](out.kind = "returned" =>
             \A i \in 1..Len(out.uncached_tasks) :
                 out.uncached_tasks[i].var = GITHUB_TOKEN /\ out.uncached_tasks[i].key = BadToken =>
                     /\ i \notin out.sent
                     /\ \E k \in 1..Len(out.results) :
                           /\ out.results[k].env_var = GITHUB_TOKEN
                           /\ out.results[k].provider = github
                           /\ out.results[k].status = "invalid_format"
                           /\ out.results[k].latency_ms = 0)

\* audit() returned GITHUB_TOKEN = "bad-token" beside a key that did go out
C5_Witness ==
    /\ Returned
    /\ \E i \in 1..Len(out.uncached_tasks) :
          /\ out.uncached_tasks[i].var = GITHUB_TOKEN
          /\ out.uncached_tasks[i].key = BadToken
          /\ i \notin out.sent
    /\ out.sent # {}
    /\ \E k \in 1..Len(out.results) : out.results[k].status = "invalid_format"

\* C6: a call of audit() whose providers list holds a name that is not in the
\* registry, whatever else it holds, returns at once an empty result flagged as
\* a configuration error: no task and no request, no provider instantiated, the
\* cache (entries and counters) and the environment left as they were.
C6_UnknownAborts ==
    [][\A providers \in callers :
          /\ \E fs \in disk : AuditStart(providers, fs)
          /\ \E k \in 1..Len(providers) : providers[k] \notin SeqSet(registry)
          => /\ out'.kind = "returned"
             /\ out'.results = <<>>
             /\ out'._config_error
             /\ out'.summary = EmptySummary
             /\ out'.sent = {}
             /\ out'.tasks = <<>>
             /\ pc' = "idle"
             /\ active' = <<>>
             /\ tstate' = <<>>
             /\ _cache' = _cache
             /\ environ' = environ]_vars

\* the abort happened for a list with a registered name in it, in a process
\* whose cache held entries and whose file had something to inject
C6_Witness ==
    /\ Returned
    /\ out._config_error
    /\ github \in SeqSet(out.providers)
    /\ Len(_cache.store) > 0
    /\ \E i \in 1..Len(env_file) : IsCompanion(env_file[i])

\* C7 as stated: when audit() has returned, whichever return it took, none of
\* the variables it injected into the process environment is still set.
C7_InjectedRemoved ==
    Returned => \A k \in 1..Len(out.injected) : out.injected[k] \notin DOMAIN environ

\* the KeyResult the join takes for a queued task whose gather slot holds r
JoinedResult(task, r) ==
    IF IsRaised(r)
    THEN [provider |-> task.provider, env_var |-> task.var,
          key_fingerprint |-> from_key(task.key), status |-> "network_error",
          rate_limit |-> None, latency_ms |-> 0,
          error_detail |-> ErrorDetail(r.exc, r.msg), auto_detected |-> FALSE]
    ELSE r

\* the cache holds an entry for (provider, key) that get would return at time t
Live(c, provider, key, t) ==
    /\ _cache_key(provider, key) \in StoreKeys(c.store)
    /\ t - StoreEntry(c.store, _cache_key(provider, key)).ts < c.ttl

\* the events of kind `event` in a batch of log entries
EventsOf(batch, event) == {k \in 1..Len(batch) : batch[k].event = event}

\* C11: when a run ends, every queued pair's fresh result, whatever its status,
\* is in the cache under its (provider, secret) with the time of the join; and
\* a run that starts while such an entry is live does not queue the pair: it
\* takes the result from the cache and logs cache_hit for the pair's env var,
\* so that the run's log has one validate event per queued pair and no other.
C11_CachedThenHit ==
    /\ [][pc = "gather" /\ pc' = "idle" =>
             \A i \in 1..Len(uncached_tasks) :
                 LET task == uncached_tasks[i]
                     ck == _cache_key(task.provider, task.key)
                 IN  /\ ck \in StoreKeys(_cache'.store)
                     /\ StoreEntry(_cache'.store, ck).ts = now
                     /\ \E j \in 1..Len(uncached_tasks) :
                           /\ uncached_tasks[j].provider = task.provider
                           /\ uncached_tasks[j].key = task.key
                           /\ StoreEntry(_cache'.store, ck).result =
                                  JoinedResult(uncached_tasks[j], raw[j])]_vars
    /\ [][pc = "idle" /\ pc' = "gather" =>
             \A k \in 1..Len(tasks') :
                 Live(_cache, tasks'[k].provider, tasks'[k].key, now) =>
                     /\ \A i \in 1..Len(uncached_tasks') : uncached_tasks'[i].var # tasks'[k].var
                     /\ \E h \in 1..Len(cached_results') :
                           /\ cached_results'[h].provider = tasks'[k].provider
                           /\ cached_results'[h].key_fingerprint = from_key(tasks'[k].key)
                     /\ \E e \in EventsOf(alog', "cache_hit") :
                           /\ alog'[e].env_var = tasks'[k].var
                           /\ alog'[e].provider = tasks'[k].provider]_vars
    /\ [](Returned /\ out.tasks # <<>> =>
             LET batch == logfile[Len(logfile)]
             IN  /\ Cardinality(EventsOf(batch, "validate")) = Len(out.uncached_tasks)
                 /\ Cardinality(EventsOf(batch, "cache_hit")) = Len(out.cached_results)
                 /\ \A i \in out.sent : i \in 1..Len(out.uncached_tasks))

\* a second run answered a pair from the cache with the failed result of the
\* first run (a network_error or an invalid_format), and sent nothing
C11_Witness ==
    /\ Returned
    /\ Len(logfile) = 2
    /\ out.sent = {}
    /\ out.uncached_tasks = <<>>
    /\ \E h \in 1..Len(out.cached_results) : out.cached_results[h].status = "network_error"
    /\ \E h \in 1..Len(out.cached_results) : out.cached_results[h].status = "invalid_format"
    /\ EventsOf(logfile[2], "cache_hit") # {}
    /\ EventsOf(logfile[2], "validate") = {}

\* the consecutive-failure counter of provider p after the fresh results of the
\* queued pairs 1..i of the returned run, counted as the breaker is to count
RECURSIVE Counter(_, _)
Counter(p, i) ==
    IF i = 0 THEN 0
    ELSE LET task == out.uncached_tasks[i]
             status == JoinedResult(task, out.raw[i]).status
         IN  IF task.provider # p THEN Counter(p, i - 1)
             ELSE IF status \in {"auth_failed", "suspended_account", "quota_exhausted",
                                 "insufficient_scope"}
             THEN Counter(p, i - 1) + 1
             ELSE 0

\* C12: within a run each fresh result with status auth_failed,
\* suspended_account, quota_exhausted or insufficient_scope adds one to its
\* provider's counter and each fresh result with another status sets it to
\* zero; cache hits change no counter; and a provider is in the run's skip set
\* exactly if its counter reached 3 at some point of the run.
C12_Breaker ==
    Returned /\ out.tasks # <<>> =>
        /\ \A p \in SeqSet(registry) :
              out.fail_counts[p] = Counter(p, Len(out.uncached_tasks))
        /\ out.skipped_providers =
              {p \in SeqSet(registry) :
                  \E i \in 1..Len(out.uncached_tasks) : Counter(p, i) >= 3}

\* three failing github results in a row put github in the skip set, and a
\* fourth result that did not fail set its counter back to zero
C12_Witness ==
    /\ Returned
    /\ Len(out.uncached_tasks) = 4
    /\ github \in out.skipped_providers
    /\ out.fail_counts[github] = 0

\* the number of active providers of the returned call
ActiveCount ==
    IF out.providers = <<>> THEN Len(registry) ELSE Cardinality(SeqSet(out.providers))

\* what C13 says of the summary and the log of the run that returned
SummaryAccounts ==
    LET batch == logfile[Len(logfile)]
    IN  /\ out.summary.providers_skipped = Cardinality(out.skipped_providers)
        /\ out.summary.providers_checked = ActiveCount - out.summary.providers_skipped
        /\ \A p \in out.skipped_providers :
              \E e \in EventsOf(batch, "provider_bail") : batch[e].provider = p

\* C13 as stated: for every run that completed (every return of audit() but the
\* abort on an unknown provider), providers_skipped is the size of the skip
\* set, providers_checked is the number of active providers minus
\* providers_skipped, and each provider of the skip set has a provider_bail
\* event in the run's log.
C13_AsStated == Returned /\ ~out._config_error => SummaryAccounts

\* C13: for every run that matched at least one pair, providers_skipped is the
\* size of the skip set, providers_checked is the number of active providers
\* minus providers_skipped, and each provider of the skip set has a
\* provider_bail event in the run's log.  (A run that matches no pair returns
\* the all-zero summary.)
C13_SummaryAccounts ==
    /\ Returned /\ out.tasks # <<>> => SummaryAccounts
    /\ Returned /\ ~out._config_error /\ out.tasks = <<>> => out.summary = EmptySummary

\* a run ended with github in the skip set and the other three providers
\* counted as checked
C13_Witness ==
    /\ Returned
    /\ out.skipped_providers = {github}
    /\ out.summary.providers_skipped = 1
    /\ out.summary.providers_checked = 3
    /\ EventsOf(logfile[Len(logfile)], "provider_bail") # {}

\* a KeyResult, as against None and an exception
IsKeyResult(r) == "status" \in DOMAIN r

\* C14: every KeyResult there is has one of the seven statuses: what check_key
\* returns for any adapter, secret and answer; what the tasks of audit() hand
\* to gather; what the cache stores and returns; and what audit() returns, the
\* results made at the join from a task's exception included.
C14_StatusClosed ==
    /\ IsKeyResult(called.ret) => called.ret.status \in Status
    /\ \A i \in 1..Len(raw) : IsKeyResult(raw[i]) => raw[i].status \in Status
    /\ \A i \in 1..Len(cached_results) : cached_results[i].status \in Status
    /\ \A i \in 1..Len(_cache.store) : _cache.store[i].result.status \in Status
    /\ \A i \in 1..Len(out.results) : out.results[i].status \in Status

\* a run returned a result made at the join from a task's CancelledError, next
\* to a result taken from the cache
C14_Witness ==
    /\ Returned
    /\ \E i \in 1..Len(out.raw) : IsRaised(out.raw[i])
    /\ out.cached_results # <<>>
    /\ Len(out.results) = 2

\* where in a batch of log entries the validate event of env var `var` is
ValidateAt(batch, var) ==
    CHOOSE k \in 1..Len(batch) : batch[k].event = "validate" /\ batch[k].env_var = var

\* the validate events of a batch, in the order of the batch
ValidateEvents(batch) == SelectSeq(batch, LAMBDA e : e.event = "validate")

\* C15 as stated: when the second queued pair's task ended before the first's,
\* the second pair's validate event comes before the first pair's in the log of
\* the run.
C15_AsStated ==
    Returned /\ out.overtake =>
        ValidateAt(logfile[Len(logfile)], out.uncached_tasks[2].var)
            < ValidateAt(logfile[Len(logfile)], out.uncached_tasks[1].var)

\* C15: the validate events of a run are appended at the join, one per queued
\* pair, in the order in which the pairs were queued, whatever the order in which
\* their tasks ended.
C15_DispatchOrder ==
    Returned /\ out.uncached_tasks # <<>> =>
        LET events == ValidateEvents(logfile[Len(logfile)])
        IN  /\ Len(events) = Len(out.uncached_tasks)
            /\ \A i \in 1..Len(events) :
                  /\ events[i].env_var = out.uncached_tasks[i].var
                  /\ events[i].provider = out.uncached_tasks[i].provider

\* a run ended in which both of the first two queued pairs sent a request and
\* the second was answered before the first
C15_Witness ==
    /\ Returned
    /\ out.overtake
    /\ {1, 2} \subseteq out.sent
    /\ Len(ValidateEvents(logfile[Len(logfile)])) >= 2

\* C16: no call of audit() is left by an exception of the audit log's flush:
\* whatever the file system does with the flush, the call returns.
C16_FlushSwallowed == out.kind # "raised"

\* C17: whatever the secret check_key is called with, the KeyResult it returns
\* holds the secret in neither part of its fingerprint (the parts to_dict, str
\* and repr print as they are).
C17_SecretAbsent ==
    IsKeyResult(called.ret) =>
        /\ ~Contains(called.ret.key_fingerprint.prefix, called.key)
        /\ ~Contains(called.ret.key_fingerprint.suffix, called.key)

\* check_key was called directly, sent its request and got an HTTP response
\* with status code `code`
Answered(code) ==
    /\ called # NoCheck
    /\ check_key_unsent(called.provider, called.env_var, called.key, called.env) = None
    /\ called.resp.kind = "http"
    /\ called.resp.code = code

\* the adapters whose validate calls resp.json() on a 200 response
JsonReaders == {anthropic, google, huggingface, openrouter, sendgrid, slack, stripe, together}

FormatMatches(value) == {p \in SeqSet(registry) : check_format(p, value)}

\* the tasks a returned run queued for env var `var`
TasksFor(var) == {i \in 1..Len(out.tasks) : out.tasks[i].var = var}

\* C20: in a run that returned, for every line of the env file whose name no
\* active provider matches: when the value matches the key format of one or
\* more providers, among them two or more, and one has a longer literal prefix
\* than every other, the pair is queued for that provider as auto-detected if
\* the provider is active and left out if not (a value starting with sk-ant-,
\* matched by anthropic and by openai, goes to anthropic); when the value
\* matches no key format the pair is left out and the run returns all the same.
C20_AutoDetect ==
    Returned /\ ~out._config_error =>
        \A i \in 1..Len(env_file) :
            LET var == env_file[i].var
                value == env_file[i].value
                act == Active(out.providers)
                longest == {p \in FormatMatches(value) :
                              \A q \in FormatMatches(value) \ {p} :
                                  Len(literal_prefix(p)) > Len(literal_prefix(q))}
            IN  MatchByName(act, var) = Undetected =>
                  /\ FormatMatches(value) = {} =>
                        /\ detect_provider_by_key(value) = Undetected
                        /\ TasksFor(var) = {}
                  /\ \A p \in longest :
                        /\ detect_provider_by_key(value) = p
                        /\ IF p \in SeqSet(act)
                           THEN \E k \in TasksFor(var) :
                                   /\ TasksFor(var) = {k}
                                   /\ out.tasks[k] = Task(var, value, p, TRUE)
                           ELSE TasksFor(var) = {}

\* a run over all providers returned: of the file's two lines, MY_CLAUDE with a
\* value matched by anthropic and by openai was queued for anthropic, and
\* APP_NAME with a value matched by no provider was left out
C20_Witness ==
    /\ Returned
    /\ out.providers = <<>>
    /\ env_file = <<Line(MY_CLAUDE, SkAntSecret), Line(APP_NAME, Demo)>>
    /\ FormatMatches(SkAntSecret) = {anthropic, openai}
    /\ FormatMatches(Demo) = {}
    /\ out.tasks = <<Task(MY_CLAUDE, SkAntSecret, anthropic, TRUE)>>

\* C21: when two or more of the providers that match a value have the greatest
\* literal prefix among those that match, the provider detected is the one of
\* them whose name is lexically smallest; and the provider detected is the same
\* for every order in which the same providers registered.
C21_TieBreak ==
    detection.value # <<>> =>
        LET reg == detection.registry
            value == detection.value
            cands == {p \in SeqSet(reg) : check_format(p, value)}
            top == {p \in cands :
                      \A q \in cands : Len(literal_prefix(q)) <= Len(literal_prefix(p))}
        IN  /\ Cardinality(top) >= 2 =>
                  /\ detection.ret \in top
                  /\ \A q \in top \ {detection.ret} : StrLess(detection.ret, q)
            /\ \A order \in OrdersOf(SeqSet(reg)) :
                  detect_among(order, value) = detection.ret

\* a value of sk- and 32 hex digits, matched by deepseek and by openai with a
\* literal prefix of three characters each, was detected as deepseek with
\* openai registered first
C21_Witness ==
    /\ detection.registry = <<openai, mistral, deepseek, github>>
    /\ detection.value = SampleKey(deepseek)
    /\ check_format(openai, detection.value)
    /\ check_format(deepseek, detection.value)
    /\ detection.ret = deepseek

\* a and b are equal in every field except latency_ms
SameButLatency(a, b) == [a EXCEPT !.latency_ms = 0] = [b EXCEPT !.latency_ms = 0]

\* C22: two calls of check_key with the same provider, env var and secret,
\* answered with the same mocked response (status, body and headers), return
\* KeyResults equal in every field except latency_ms, whenever the two calls
\* are made.
C22_Repeatable ==
    called.again # None /\ IsKeyResult(called.ret) /\ IsKeyResult(called.again) =>
        SameButLatency(called.ret, called.again)

\* the queued tasks of the returned run for (provider, secret)
QueuedFor(provider, key) ==
    {u \in 1..Len(out.uncached_tasks) :
        out.uncached_tasks[u].provider = provider /\ out.uncached_tasks[u].key = key}

\* C23: when a run matched two different env vars holding the same secret for
\* the same provider, only the first lookup may miss: the second is a cache
\* hit, so at most one of the two pairs is queued and at most one request is
\* sent for them.
C23_SecondLookupHits ==
    Returned =>
        \A i, j \in 1..Len(out.tasks) :
            /\ i < j
            /\ out.tasks[i].provider = out.tasks[j].provider
            /\ out.tasks[i].key = out.tasks[j].key
            /\ out.tasks[i].var # out.tasks[j].var
            => /\ Cardinality(QueuedFor(out.tasks[i].provider, out.tasks[i].key)) <= 1
               /\ Cardinality(QueuedFor(out.tasks[i].provider, out.tasks[i].key) \cap out.sent) <= 1

\* C24: every call of audit() that returned has flushed its buffered events to
\* the log exactly once, as one batch that begins with audit_start and ends
\* with audit_end: on the normal path, when no credential matched, and when the
\* call was aborted for an unknown provider.
C24_FlushedOnce ==
    Returned =>
        /\ out.flushes = 1
        /\ Len(logfile) = MaxRuns - budget
        /\ logfile[Len(logfile)][1].event = "audit_start"
        /\ logfile[Len(logfile)][Len(logfile[Len(logfile)])].event = "audit_end"

\* the names of the allowed list of the permissions file
AllowedNames ==
    IF permissions_file.state = "json" THEN SeqSet(permissions_file.allowed) ELSE {}

\* the names of which a value has been given out
ValuesTold == {d.name : d \in {e \in disclosed : e.value # <<>>}}

\* C25: in every mode of the broker and after any sequence of requests, every
\* credential whose name or value an output has disclosed is in the allowed
\* list of the permissions file, and a request for the value of a credential
\* outside that list is denied.
C25_AllowedOnly ==
    /\ \A d \in disclosed : d.name \in AllowedNames
    /\ broker.reply # None /\ broker.reply.asked # <<>>
           /\ broker.reply.asked \notin AllowedNames
        => broker.reply.status \in {"401", "403", "isError"}

\* what does hold: values are given out for allowed names only
ValuesAllowedOnly == ValuesTold \subseteq AllowedNames

\* C26: every result of the list audit() returns carries the env var of the
\* pair it answers: for every matched pair of the run there is exactly one
\* result with that pair's env var, also when the result comes from a cache
\* entry that a pair with another env var name stored.
C26_OwnEnvVar ==
    Returned =>
        \A k \in 1..Len(out.tasks) :
            Cardinality({r \in 1..Len(out.results) :
                            /\ out.results[r].env_var = out.tasks[k].var
                            /\ out.results[r].provider = out.tasks[k].provider}) = 1

\* C27: in the summary of every completed run, cache_hits is the number of
\* results of that run served from the cache and cache_misses is the number
\* of pairs of that run that were dispatched, so that the two add up to
\* total_keys; in the first run and in every later run of the process.
C27_PerRunCacheCounts ==
    Returned /\ ~out._config_error =>
        /\ out.summary.cache_hits = Len(out.cached_results)
        /\ out.summary.cache_misses = Len(out.uncached_tasks)
        /\ out.summary.cache_hits + out.summary.cache_misses = out.summary.total_keys

\* C28: audit() leaves the caller's environment as it found it: every variable
\* that was set in the process before the call, TWILIO_ACCOUNT_SID included,
\* is still set with the value it had when audit() has returned.
C28_EnvironPreserved ==
    Returned =>
        \A v \in DOMAIN out.found : v \in DOMAIN environ /\ environ[v] = out.found[v]

\* the provider_bail events of provider p in a batch of log entries
BailsOf(batch, p) == {e \in EventsOf(batch, "provider_bail") : batch[e].provider = p}

\* C30: within one run a provider once added to the skip set is never removed,
\* even if a later fresh result sets its counter back to zero, and the audit
\* log of the run holds at most one provider_bail event per provider, however
\* many consecutive failing results the provider has beyond the third.
C30_BailOnce ==
    Returned /\ out.tasks # <<>> =>
        /\ \A p \in SeqSet(registry) :
              (\E i \in 1..Len(out.uncached_tasks) : Counter(p, i) >= _FAIL_BAIL_THRESHOLD)
                  => p \in out.skipped_providers
        /\ \A p \in SeqSet(registry) :
              Cardinality(BailsOf(logfile[Len(logfile)], p)) <= 1

StoreEntries(store) == {store[i] : i \in 1..Len(store)}

\* C8: a get(p, s) of an entry put as r and younger than the TTL returns r, adds one
\* to hits and changes neither misses nor the store; a get of an entry at or over
\* the TTL returns none, adds one to misses, leaves hits and removes that entry
\* only; a get of a pair never put returns none and adds one to misses.
C8_GetByAge ==
    [][last'.op = "get" =>
        LET ck == _cache_key(last'.provider, last'.key)
            lp == lastput[<<last'.provider, last'.key>>]
            present == ck \in StoreKeys(_cache.store)
        IN  /\ lp = None =>
                /\ last'.ret = None
                /\ _cache'.misses = _cache.misses + 1
                /\ _cache'.hits = _cache.hits
                /\ _cache'.store = _cache.store
            /\ (lp # None /\ present /\ now - lp.at < _cache.ttl) =>
                /\ last'.ret = lp.result
                /\ _cache'.hits = _cache.hits + 1
                /\ _cache'.misses = _cache.misses
                /\ _cache'.store = _cache.store
            /\ (lp # None /\ present /\ now - lp.at >= _cache.ttl) =>
                /\ last'.ret = None
                /\ _cache'.misses = _cache.misses + 1
                /\ _cache'.hits = _cache.hits
                /\ ck \notin StoreKeys(_cache'.store)
                /\ StoreEntries(_cache'.store) =
                      StoreEntries(_cache.store) \ {StoreEntry(_cache.store, ck)}
    ]_vars

\* a hit has been counted, and the last call was a get of a pair whose entry, put
\* earlier, had reached the TTL
C8_Witness ==
    /\ last.op = "get"
    /\ last.ret = None
    /\ lastput[<<last.provider, last.key>>] # None
    /\ now - lastput[<<last.provider, last.key>>].at = _cache.ttl
    /\ _cache.hits >= 1
    /\ _cache.misses >= 1

\* what a put step must do to the store: with `full` the one entry `e` goes first
PutEffect(pre, post, ck, r, t, evicted) ==
    StoreEntries(post) =
        {x \in StoreEntries(pre) \ evicted : x.ck # ck} \cup {[ck |-> ck, result |-> r, ts |-> t]}

\* C9 as stated, for every max_size: a put into a store holding max_size entries
\* removes exactly one entry, one with the least timestamp, and then inserts; a put
\* into a store holding fewer removes none.
C9_AsStated ==
    [][last'.op = "put" =>
        LET pre == _cache.store
            ck == _cache_key(last'.provider, last'.key)
        IN  /\ Len(pre) = _cache.max_size =>
                \E e \in StoreEntries(pre) :
                    /\ \A x \in StoreEntries(pre) : e.ts <= x.ts
                    /\ PutEffect(pre, _cache'.store, ck, last'.arg, now, {e})
            /\ Len(pre) < _cache.max_size =>
                PutEffect(pre, _cache'.store, ck, last'.arg, now, {})
    ]_vars

\* C9, amended: the same for max_size >= 1 (with max_size = 0 the put raises)
C9_EvictOldest ==
    [][(last'.op = "put" /\ _cache.max_size >= 1) =>
        LET pre == _cache.store
            ck == _cache_key(last'.provider, last'.key)
        IN  /\ ~last'.raised
            /\ Len(pre) = _cache.max_size =>
                \E e \in StoreEntries(pre) :
                    /\ \A x \in StoreEntries(pre) : e.ts <= x.ts
                    /\ PutEffect(pre, _cache'.store, ck, last'.arg, now, {e})
            /\ Len(pre) < _cache.max_size =>
                PutEffect(pre, _cache'.store, ck, last'.arg, now, {})
    ]_vars

\* C29: a put for a (provider, secret) whose key is already stored replaces that
\* entry's result and timestamp and leaves every other stored entry as it was,
\* also when the store holds max_size entries: overwriting a stored key never
\* evicts a different key.
C29_OverwriteKeepsOthers ==
    [][(/\ last'.op = "put"
        /\ ~last'.raised
        /\ _cache_key(last'.provider, last'.key) \in StoreKeys(_cache.store)) =>
            PutEffect(_cache.store, _cache'.store,
                      _cache_key(last'.provider, last'.key), last'.arg, now, {})
    ]_vars

\* the store is full, its entries have different timestamps, and the last call was
\* a put of a pair that is stored now while a pair put earlier is not
C9_Witness ==
    /\ last.op = "put"
    /\ ~last.raised
    /\ _cache.max_size >= 2
    /\ Len(_cache.store) = _cache.max_size
    /\ \E i, j \in 1..Len(_cache.store) : _cache.store[i].ts < _cache.store[j].ts
    /\ _cache_key(last.provider, last.key) \in StoreKeys(_cache.store)
    /\ \E pk \in CachePairs :
          lastput[pk] # None /\ _cache_key(pk[1], pk[2]) \notin StoreKeys(_cache.store)

\* C10: with max_size >= 1 the store never holds more than max_size entries and
\* put never fails.
C10_SizeBounded ==
    _cache.max_size >= 1 =>
        /\ Len(_cache.store) <= _cache.max_size
        /\ ~(last.op = "put" /\ last.raised)

\* more pairs have been put than the store may hold, and the last put went into a
\* full store
C10_Witness ==
    /\ _cache.max_size >= 1
    /\ last.op = "put"
    /\ Len(_cache.store) = _cache.max_size
    /\ Cardinality({pk \in CachePairs : lastput[pk] # None}) > _cache.max_size

====
